---- MODULE Spec2Model ----
(***************************************************************************)
(* Signature feature extraction, comparison and classification of          *)
(* src/server/advanced-signature-analyzer.py.                              *)
(*                                                                         *)
(* Numbers.  Python floats are modelled as fixed-point integers:           *)
(*   - quantities of the unit interval (similarity, compatibility, SSIM)   *)
(*     are integers v standing for v / FS;                                 *)
(*   - naturalness scores (0-100) are integers v standing for v / NS;      *)
(*   - descriptor features are integers v standing for v / VS;             *)
(*   - a quotient is truncated to the scale (Quot), so a value is known    *)
(*     to within one unit of its scale.                                    *)
(* A Python dict is an ordered association list: a sequence of             *)
(* <<key, value>> pairs with distinct keys, in insertion order.            *)
(***************************************************************************)
EXTENDS Integers, Sequences, FiniteSets, TLC

VARIABLES pc, op, args, ret, steps,
          firme_verifica, firme_comparative,
          firme_verifica_images, firme_comparative_images,
          canvas_verifica, canvas_comparative

\* the lists and the canvases of the interactive tool
tool_vars == <<firme_verifica, firme_comparative,
               firme_verifica_images, firme_comparative_images,
               canvas_verifica, canvas_comparative>>

vars == <<pc, op, args, ret, steps, tool_vars>>

\* ------------------------------------------------------------------------
\* Scales and bounds
\* ------------------------------------------------------------------------
FS == 10000
NS == 100
VS == 100

\* Sampling density of the classification square: points per percent.
Grid == 2

\* Sampled feature values (scale VS): all of -MaxV..MaxV and +-BigV.
MaxV == 21

BigV == 50000

\* Sample descriptors of the comparator: MaxProfiles value profiles, each
\* with up to MaxMissing key parameters missing.
MaxProfiles == 3

MaxMissing == 1

\* Largest number of strokes (external contours) of a sample image.
MaxContours == 2

\* Latest reading of the system clock.
MaxClock == 2

\* Largest factor by which the physical dimensions are scaled.
MaxScale == 3

\* Largest number of keys of a dict given to the key normalization.
MaxKeys == 3

\* Number of steps of the grid of naturalness sub-scores over [0,100].
NatGrid == 4

\* ------------------------------------------------------------------------
\* Arithmetic helpers
\* ------------------------------------------------------------------------
Abs(x) == IF x < 0 THEN -x ELSE x

Max(a, b) == IF b > a THEN b ELSE a

Min(a, b) == IF b < a THEN b ELSE a

\* Python's true division, truncated to the integer grid (sign preserved).
Quot(a, b) ==
  IF (a < 0) = (b < 0) THEN Abs(a) \div Abs(b) ELSE -(Abs(a) \div Abs(b))

\* ------------------------------------------------------------------------
\* classify_signature_intelligent (nested in compare_signatures_with_dimensions)
\*   similarity_pct : final similarity, scale FS
\*   naturalness_pct: average naturalness, scale NS
\* sim and nat are compared with whole-percent thresholds: sim is
\* similarity_pct * 100 (scale FS), nat is naturalness_pct (scale NS).
\* ------------------------------------------------------------------------
Triple(v, c, e) == [verdict |-> v, confidence |-> c, explanation |-> e]

classify_priority_swapped(similarity_pct, naturalness_pct) ==
  LET sim == similarity_pct * 100
      nat == naturalness_pct
  IN  IF sim >= 85 * FS /\ nat >= 80 * NS
        THEN Triple("Autentica", 95, "Alta similarita e movimenti naturali")
      ELSE IF sim >= 98 * FS
        THEN Triple("Autentica", 98, "Similarita quasi perfetta - firma identica")
      ELSE Triple("Incerta", 50, "Parametri nel range intermedio")

classify_dissimulata_60(similarity_pct, naturalness_pct) ==
  LET sim == similarity_pct * 100
      nat == naturalness_pct
  IN  IF sim >= 98 * FS
        THEN Triple("Autentica", 98, "Similarita quasi perfetta - firma identica")
      ELSE IF sim >= 85 * FS /\ nat >= 80 * NS
        THEN Triple("Autentica", 95, "Alta similarita e movimenti naturali")
      ELSE IF sim >= 85 * FS /\ nat < 60 * NS
        THEN Triple("Possibile copia abile", 70, "Alta similarita ma movimenti innaturali")
      ELSE IF 60 * FS <= sim /\ sim < 65 * FS /\ nat >= 80 * NS
        THEN Triple("Autentica dissimulata", 85, "Modificata intenzionalmente ma autentica")
      ELSE IF sim < 55 * FS /\ nat >= 80 * NS
        THEN Triple("Sospetta", 75, "Similarita troppo bassa - possibile imitazione naturale")
      ELSE IF sim < 65 * FS /\ nat < 60 * NS
        THEN Triple("Probabilmente falsa", 90, "Bassa similarita e movimenti innaturali")
      ELSE IF 65 * FS <= sim /\ sim < 85 * FS
        THEN IF nat >= 75 * NS
               THEN Triple("Probabilmente autentica", 75, "Similarita accettabile e movimenti naturali")
             ELSE IF nat < 50 * NS
               THEN Triple("Sospetta", 60, "Similarita media ma movimenti innaturali")
             ELSE Triple("Incerta", 50, "Similarita e naturalezza intermedie")
      ELSE IF 60 * NS <= nat /\ nat < 80 * NS
        THEN IF sim >= 75 * FS
               THEN Triple("Probabilmente autentica", 75, "Alta similarita e naturalezza accettabile")
             ELSE Triple("Sospetta", 65, "Parametri nel range intermedio")
      ELSE Triple("Incerta", 50, "Parametri nel range intermedio")

classify_medium_first(similarity_pct, naturalness_pct) ==
  LET sim == similarity_pct * 100
      nat == naturalness_pct
  IN  IF sim >= 98 * FS
        THEN Triple("Autentica", 98, "Similarita quasi perfetta - firma identica")
      ELSE IF 60 * NS <= nat /\ nat < 80 * NS
        THEN IF sim >= 75 * FS
               THEN Triple("Probabilmente autentica", 75, "Alta similarita e naturalezza accettabile")
             ELSE Triple("Sospetta", 65, "Parametri nel range intermedio")
      ELSE IF sim >= 85 * FS /\ nat >= 80 * NS
        THEN Triple("Autentica", 95, "Alta similarita e movimenti naturali")
      ELSE IF sim >= 85 * FS /\ nat < 60 * NS
        THEN Triple("Possibile copia abile", 70, "Alta similarita ma movimenti innaturali")
      ELSE IF 55 * FS <= sim /\ sim < 65 * FS /\ nat >= 80 * NS
        THEN Triple("Autentica dissimulata", 85, "Modificata intenzionalmente ma autentica")
      ELSE IF sim < 55 * FS /\ nat >= 80 * NS
        THEN Triple("Sospetta", 75, "Similarita troppo bassa - possibile imitazione naturale")
      ELSE IF sim < 65 * FS /\ nat < 60 * NS
        THEN Triple("Probabilmente falsa", 90, "Bassa similarita e movimenti innaturali")
      ELSE IF 65 * FS <= sim /\ sim < 85 * FS
        THEN IF nat >= 75 * NS
               THEN Triple("Probabilmente autentica", 75, "Similarita accettabile e movimenti naturali")
             ELSE IF nat < 50 * NS
               THEN Triple("Sospetta", 60, "Similarita media ma movimenti innaturali")
             ELSE Triple("Incerta", 50, "Similarita e naturalezza intermedie")
      ELSE Triple("Incerta", 50, "Parametri nel range intermedio")

\* the table without its rule for 65 <= sim < 85
classify_without_medium_similarity(similarity_pct, naturalness_pct) ==
  LET sim == similarity_pct * 100
      nat == naturalness_pct
  IN  IF sim >= 98 * FS
        THEN Triple("Autentica", 98, "Similarita quasi perfetta - firma identica")
      ELSE IF sim >= 85 * FS /\ nat >= 80 * NS
        THEN Triple("Autentica", 95, "Alta similarita e movimenti naturali")
      ELSE IF sim >= 85 * FS /\ nat < 60 * NS
        THEN Triple("Possibile copia abile", 70, "Alta similarita ma movimenti innaturali")
      ELSE IF 55 * FS <= sim /\ sim < 65 * FS /\ nat >= 80 * NS
        THEN Triple("Autentica dissimulata", 85, "Modificata intenzionalmente ma autentica")
      ELSE IF sim < 55 * FS /\ nat >= 80 * NS
        THEN Triple("Sospetta", 75, "Similarita troppo bassa - possibile imitazione naturale")
      ELSE IF sim < 65 * FS /\ nat < 60 * NS
        THEN Triple("Probabilmente falsa", 90, "Bassa similarita e movimenti innaturali")
      ELSE IF 60 * NS <= nat /\ nat < 80 * NS
        THEN IF sim >= 75 * FS
               THEN Triple("Probabilmente autentica", 75, "Alta similarita e naturalezza accettabile")
             ELSE Triple("Sospetta", 65, "Parametri nel range intermedio")
      ELSE Triple("Incerta", 50, "Parametri nel range intermedio")

classify_signature_intelligent(similarity_pct, naturalness_pct) ==
  LET sim == similarity_pct * 100
      nat == naturalness_pct
  IN  IF sim >= 98 * FS
        THEN Triple("Autentica", 98, "Similarita quasi perfetta - firma identica")
      ELSE IF sim >= 85 * FS /\ nat >= 80 * NS
        THEN Triple("Autentica", 95, "Alta similarita e movimenti naturali")
      ELSE IF sim >= 85 * FS /\ nat < 60 * NS
        THEN Triple("Possibile copia abile", 70, "Alta similarita ma movimenti innaturali")
      ELSE IF 55 * FS <= sim /\ sim < 65 * FS /\ nat >= 80 * NS
        THEN Triple("Autentica dissimulata", 85, "Modificata intenzionalmente ma autentica")
      ELSE IF sim < 55 * FS /\ nat >= 80 * NS
        THEN Triple("Sospetta", 75, "Similarita troppo bassa - possibile imitazione naturale")
      ELSE IF sim < 65 * FS /\ nat < 60 * NS
        THEN Triple("Probabilmente falsa", 90, "Bassa similarita e movimenti innaturali")
      ELSE IF 65 * FS <= sim /\ sim < 85 * FS
        THEN IF nat >= 75 * NS
               THEN Triple("Probabilmente autentica", 75, "Similarita accettabile e movimenti naturali")
             ELSE IF nat < 50 * NS
               THEN Triple("Sospetta", 60, "Similarita media ma movimenti innaturali")
             ELSE Triple("Incerta", 50, "Similarita e naturalezza intermedie")
      ELSE IF 60 * NS <= nat /\ nat < 80 * NS
        THEN IF sim >= 75 * FS
               THEN Triple("Probabilmente autentica", 75, "Alta similarita e naturalezza accettabile")
             ELSE Triple("Sospetta", 65, "Parametri nel range intermedio")
      ELSE Triple("Incerta", 50, "Parametri nel range intermedio")

\* ------------------------------------------------------------------------
\* Python values.  A descriptor value is a tagged record:
\*   Num(v)  a finite number v / VS (int or float), in field v
\*   Inf     the float +inf (numpy division of a positive number by 0.0)
\*   Str(x)  a string, in field s
\*   Pair(a, b) a 2-tuple of numbers, in fields v and w
\*   None    the absence of a value (dict.get on a missing key)
\* ------------------------------------------------------------------------
Num(v) == [t |-> "num", v |-> v, w |-> 0, s |-> ""]

Inf == [t |-> "inf", v |-> 0, w |-> 0, s |-> ""]

Str(x) == [t |-> "str", v |-> 0, w |-> 0, s |-> x]

Pair(a, b) == [t |-> "pair", v |-> a, w |-> b, s |-> ""]

None == [t |-> "none", v |-> 0, w |-> 0, s |-> ""]

\* str.lower() on the labels that occur
Lower(s) ==
  CASE s = "Alta" -> "alta"
    [] s = "ALTA" -> "alta"
    [] s = "Media" -> "media"
    [] s = "Bassa" -> "bassa"
    [] s = "High" -> "high"
    [] s = "Medium" -> "medium"
    [] s = "Low" -> "low"
    [] s = "Corsivo" -> "corsivo"
    [] s = "Stampatello" -> "stampatello"
    [] s = "Misto" -> "misto"
    [] OTHER -> s

\* levels.get(label, 2) with levels = {'alta': 3, 'media': 2, 'bassa': 1}
ReadabilityLevel(l) ==
  CASE l = "alta" -> 3
    [] l = "media" -> 2
    [] l = "bassa" -> 1
    [] OTHER -> 2

\* ------------------------------------------------------------------------
\* calculate_parameter_compatibility (nested in
\* compare_signatures_with_dimensions); result at scale FS.
\* A comparison with a NaN operand is false, and max(c, nan) is c.
\* ------------------------------------------------------------------------
compatibility_without_floor(ref_val, ver_val, param_name) ==
  IF ref_val.t = "none" \/ ver_val.t = "none" THEN (5 * FS) \div 10
  ELSE IF param_name \in {"WritingStyle", "Readability"} THEN (5 * FS) \div 10
  ELSE LET diff == Abs(ref_val.v - ver_val.v)
           max_val == Max(Abs(ref_val.v), Abs(ver_val.v))
       IN  IF max_val > 0 THEN FS - Quot(diff * FS, max_val) ELSE FS

compatibility_strict_thresholds(ref_val, ver_val, param_name) ==
  IF ref_val.t = "none" \/ ver_val.t = "none" THEN (5 * FS) \div 10
  ELSE IF param_name \in {"WritingStyle", "Readability"} THEN
    IF ref_val.t = "str" /\ ver_val.t = "str" THEN
      IF Lower(ref_val.s) = Lower(ver_val.s) THEN FS
      ELSE IF param_name = "Readability" THEN
        LET ref_level == ReadabilityLevel(Lower(ref_val.s))
            ver_level == ReadabilityLevel(Lower(ver_val.s))
            diff_levels == Abs(ref_level - ver_level)
        IN  Max((3 * FS) \div 10, FS - (diff_levels * 35 * FS) \div 100)
      ELSE (5 * FS) \div 10
    ELSE (5 * FS) \div 10
  ELSE
    LET nonfinite == ref_val.t = "inf" \/ ver_val.t = "inf"
        diff == Abs(ref_val.v - ver_val.v)
        max_val == Max(Abs(ref_val.v), Abs(ver_val.v))
    IN  IF param_name \in {"AvgAsolaSize", "BaselineStdMm"} THEN
          IF nonfinite THEN 0
          ELSE IF 100 * diff < 5 * VS THEN (95 * FS) \div 100
          ELSE IF 10 * diff < 1 * VS THEN (80 * FS) \div 100
          ELSE IF 10 * diff < 2 * VS THEN (60 * FS) \div 100
          ELSE Max(0, FS - Quot(diff * 2 * FS, VS))
        ELSE IF nonfinite THEN (10 * FS) \div 100
        ELSE IF max_val > 0 THEN
          IF 100 * diff < 5 * max_val THEN (98 * FS) \div 100
          ELSE IF 100 * diff < 10 * max_val THEN (90 * FS) \div 100
          ELSE IF 100 * diff < 15 * max_val THEN (80 * FS) \div 100
          ELSE IF 100 * diff < 25 * max_val THEN (60 * FS) \div 100
          ELSE IF 100 * diff < 50 * max_val THEN (30 * FS) \div 100
          ELSE Max((10 * FS) \div 100, FS - Quot(diff * FS, max_val))
        ELSE FS

calculate_parameter_compatibility(ref_val, ver_val, param_name) ==
  IF ref_val.t = "none" \/ ver_val.t = "none" THEN (5 * FS) \div 10
  ELSE IF param_name \in {"WritingStyle", "Readability"} THEN
    IF ref_val.t = "str" /\ ver_val.t = "str" THEN
      IF Lower(ref_val.s) = Lower(ver_val.s) THEN FS
      ELSE IF param_name = "Readability" THEN
        LET ref_level == ReadabilityLevel(Lower(ref_val.s))
            ver_level == ReadabilityLevel(Lower(ver_val.s))
            diff_levels == Abs(ref_level - ver_level)
        IN  Max((3 * FS) \div 10, FS - (diff_levels * 35 * FS) \div 100)
      ELSE (5 * FS) \div 10
    ELSE (5 * FS) \div 10
  ELSE
    LET nonfinite == ref_val.t = "inf" \/ ver_val.t = "inf"
        diff == Abs(ref_val.v - ver_val.v)
        max_val == Max(Abs(ref_val.v), Abs(ver_val.v))
    IN  IF param_name \in {"AvgAsolaSize", "BaselineStdMm"} THEN
          IF nonfinite THEN 0
          ELSE IF 100 * diff <= 5 * VS THEN (95 * FS) \div 100
          ELSE IF 10 * diff <= 1 * VS THEN (80 * FS) \div 100
          ELSE IF 10 * diff <= 2 * VS THEN (60 * FS) \div 100
          ELSE Max(0, FS - Quot(diff * 2 * FS, VS))
        ELSE IF nonfinite THEN (10 * FS) \div 100
        ELSE IF max_val > 0 THEN
          IF 100 * diff <= 5 * max_val THEN (98 * FS) \div 100
          ELSE IF 100 * diff <= 10 * max_val THEN (90 * FS) \div 100
          ELSE IF 100 * diff <= 15 * max_val THEN (80 * FS) \div 100
          ELSE IF 100 * diff <= 25 * max_val THEN (60 * FS) \div 100
          ELSE IF 100 * diff <= 50 * max_val THEN (30 * FS) \div 100
          ELSE Max((10 * FS) \div 100, FS - Quot(diff * FS, max_val))
        ELSE FS

\* key_parameters: (name, weight in hundredths), in the order of the list
key_parameters ==
  << <<"PressureMean", 16>>, <<"AvgCurvature", 14>>, <<"Proportion", 12>>,
     <<"Velocity", 10>>, <<"PressureStd", 8>>, <<"AvgAsolaSize", 8>>,
     <<"AvgSpacing", 6>>, <<"Inclination", 5>>, <<"OverlapRatio", 5>>,
     <<"LetterConnections", 5>>, <<"BaselineStdMm", 4>>,
     <<"StrokeComplexity", 4>>, <<"ConnectedComponents", 2>>,
     <<"WritingStyle", 1>>, <<"Readability", 0>> >>

\* ------------------------------------------------------------------------
\* Python dicts as ordered association lists
\* ------------------------------------------------------------------------
Has(d, k) == \E i \in 1..Len(d) : d[i][1] = k

\* d.get(k): the value, or None when the key is missing
Get(d, k) ==
  IF Has(d, k) THEN d[CHOOSE i \in 1..Len(d) : d[i][1] = k][2] ELSE None

\* d[k] = v: replaces the value of an existing key in place, appends a new key
Put(d, k, v) ==
  IF Has(d, k)
    THEN [d EXCEPT ![CHOOSE i \in 1..Len(d) : d[i][1] = k] = <<k, v>>]
    ELSE Append(d, <<k, v>>)

\* ------------------------------------------------------------------------
\* Weighted parameter score and final similarity
\* (compare_signatures_with_dimensions, "Calcola punteggio parametri pesato")
\* ------------------------------------------------------------------------
\* the for loop over key_parameters[1..n]: <<weighted_score, total_weight>>,
\* weighted_score at scale FS * 100, total_weight in hundredths
RECURSIVE ScoreLoop(_, _, _)
ScoreLoop(n, verifica_data, comp_data) ==
  IF n = 0 THEN <<0, 0>>
  ELSE LET acc == ScoreLoop(n - 1, verifica_data, comp_data)
           param_name == key_parameters[n][1]
           weight == key_parameters[n][2]
           ref_val == Get(comp_data, param_name)
           ver_val == Get(verifica_data, param_name)
       IN  IF ref_val.t # "none" /\ ver_val.t # "none"
             THEN <<acc[1] + calculate_parameter_compatibility(
                               ref_val, ver_val, param_name) * weight,
                    acc[2] + weight>>
             ELSE acc

parameters_score_fixed_total(verifica_data, comp_data) ==
  LET acc == ScoreLoop(Len(key_parameters), verifica_data, comp_data)
  IN  Quot(acc[1], 100)

parameters_score(verifica_data, comp_data) ==
  LET acc == ScoreLoop(Len(key_parameters), verifica_data, comp_data)
      weighted_score == acc[1]
      total_weight == acc[2]
  IN  IF total_weight > 0 THEN Quot(weighted_score, total_weight)
      ELSE (5 * FS) \div 10

final_similarity_even(similarity, score) ==
  Quot(similarity * 5 + score * 5, 10)

\* (similarity * 0.6) + (parameters_score * 0.4)
final_similarity(similarity, score) ==
  Quot(similarity * 6 + score * 4, 10)

\* ------------------------------------------------------------------------
\* Images.  An image file is described by what OpenCV reports for it:
\*   readable            cv2.imread returned an array
\*   width, height       image.shape of the source image
\*   contours            number of external contours of the 300x150 mask
\*   w, h                bounding box of the largest contour of that mask
\*   contours_orig, w_orig, h_orig   the same on the unresized mask
\*   main_points         number of points of the largest contour
\*   curvature, inclination          calculate_curvature and
\*                       calculate_signature_inclination on it (scale VS)
\*   pressure_mean, pressure_std     mean and std of the gray levels (VS)
\*   asola_area          mean area, in px^2, of the contours with
\*                       20 < area < 500 and circularity > 0.5; 0 if none
\*   spacing_px          mean gap of the sorted left edges (scale VS)
\*   total_length        sum of the arc lengths, px
\*   ink                 number of mask pixels > 0
\*   points              number of contour points
\*   baseline_std_px     std of the y coordinates of the points (scale VS)
\*   letter_connections  count_letter_connections(mask)
\*   fluidity, pressure_consistency, coordination   sub-scores (scale NS)
\*   fails               the feature whose computation raises on this image
\*                       (an OpenCV or NumPy error), "" when none does
\* ------------------------------------------------------------------------
Unreadable ==
  [readable |-> FALSE, width |-> 0, height |-> 0, contours |-> 0,
   w |-> 0, h |-> 0, contours_orig |-> 0, w_orig |-> 0, h_orig |-> 0,
   main_points |-> 0, curvature |-> 0, inclination |-> 0,
   pressure_mean |-> 0, pressure_std |-> 0, asola_area |-> 0,
   spacing_px |-> 0, total_length |-> 0, ink |-> 0, points |-> 0,
   baseline_std_px |-> 0, letter_connections |-> 0,
   fluidity |-> 0, pressure_consistency |-> 0, coordination |-> 0,
   fails |-> ""]

\* an all-white page of W x H pixels: nothing under the threshold
Blank(W, H) ==
  [Unreadable EXCEPT !.readable = TRUE, !.width = W, !.height = H,
                     !.pressure_mean = 255 * VS]

\* a page of W x H pixels with c strokes; area is the mean loop area and
\* natural tells a fluent hand from a slow, drawn one
Signature(W, H, c, area, natural) ==
  [readable |-> TRUE, width |-> W, height |-> H, contours |-> c,
   w |-> 200, h |-> 60, contours_orig |-> c,
   w_orig |-> (200 * W) \div 300, h_orig |-> (60 * H) \div 150,
   main_points |-> 80,
   curvature |-> IF natural THEN 95 * VS ELSE 120 * VS,
   inclination |-> IF natural THEN 12 * VS ELSE 30 * VS,
   pressure_mean |-> 200 * VS, pressure_std |-> 45 * VS,
   asola_area |-> area,
   spacing_px |-> IF c > 1 THEN 40 * VS ELSE 0,
   total_length |-> 500 * c, ink |-> 1500 * c, points |-> 120 * c,
   baseline_std_px |-> (25 * VS) \div 2,
   letter_connections |-> 2 + c,
   fluidity |-> IF natural THEN 90 * NS ELSE 40 * NS,
   pressure_consistency |-> IF natural THEN 90 * NS ELSE 50 * NS,
   coordination |-> IF natural THEN 90 * NS ELSE 50 * NS,
   fails |-> ""]

\* a signature written as c detached strokes of about the same size: the
\* bounding box of the largest contour is 40 x 30 px and holds 800 ink
\* pixels, and each of the other strokes, outside that box, holds 800 more
Detached(W, H, c) ==
  [Signature(W, H, c, 0, TRUE) EXCEPT !.w = 40, !.h = 30,
                                      !.w_orig = (40 * W) \div 300,
                                      !.h_orig = (30 * H) \div 150,
                                      !.main_points = 40,
                                      !.ink = 800 * c]

\* the same file when the computation of one feature raises
Failing(image, feature) == [image EXCEPT !.fails = feature]

\* features computed by a function with its own exception handler
GuardedFeatures ==
  {"inclination", "connections", "fluidity", "pressure_consistency",
   "coordination"}

\* features computed in the body of analyze_signature_with_dimensions or
\* by calculate_curvature and calculate_circularity, which have no handler
UnguardedFeatures ==
  {"curvature", "loops", "spacing", "velocity", "overlap", "baseline"}

\* math.hypot on pixel counts, to the pixel
Hypot(a, b) ==
  CHOOSE r \in 0..(a + b) : r * r <= a * a + b * b /\ a * a + b * b < (r + 1) * (r + 1)

\* ------------------------------------------------------------------------
\* calculate_signature_inclination (angles in degrees at scale VS).  A
\* contour is given by
\*   points   number of its points
\*   ellipse  angle of cv2.fitEllipse on it, in [0,180)
\*   rect     angle of cv2.minAreaRect on it, in [-90,90]
\* regression is [angle |-> degrees(arctan(slope)) of the line fitted to
\* all points, spread |-> np.std(x_coords) > 0], and fails names the
\* estimator whose first library call raises ("" when none does).
\* ------------------------------------------------------------------------
RECURSIVE InsertSorted(_, _)
InsertSorted(x, q) ==
  IF q = <<>> THEN <<x>>
  ELSE IF x <= Head(q) THEN <<x>> \o q
  ELSE <<Head(q)>> \o InsertSorted(x, Tail(q))

RECURSIVE SortedSeq(_)
SortedSeq(q) == IF q = <<>> THEN <<>> ELSE InsertSorted(Head(q), SortedSeq(Tail(q)))

\* np.median of a non-empty list
Median(q) ==
  LET sorted == SortedSeq(q)
      n == Len(q)
  IN  IF n % 2 = 1 THEN sorted[(n + 1) \div 2]
      ELSE Quot(sorted[n \div 2] + sorted[n \div 2 + 1], 2)

RECURSIVE PointsOf(_)
PointsOf(contours) ==
  IF contours = <<>> THEN 0
  ELSE (IF Head(contours).points >= 3 THEN Head(contours).points ELSE 0)
         + PointsOf(Tail(contours))

\* the list inclinations after the three estimators
inclination_samples(contours, regression, fails) ==
  LET linear ==
        IF fails # "regression" /\ PointsOf(contours) > 10 /\ regression.spread
          THEN <<Abs(regression.angle)>> ELSE <<>>
      fitted == SelectSeq(contours, LAMBDA c : c.points >= 5)
      ellipses ==
        IF fails = "ellipse" THEN <<>>
        ELSE [i \in 1..Len(fitted) |->
                IF fitted[i].ellipse > 90 * VS THEN 180 * VS - fitted[i].ellipse
                ELSE IF fitted[i].ellipse < 0 THEN Abs(fitted[i].ellipse)
                ELSE fitted[i].ellipse]
      boxed == SelectSeq(contours, LAMBDA c : c.points >= 4)
      rects ==
        IF fails = "rect" THEN <<>>
        ELSE [i \in 1..Len(boxed) |->
                Abs(IF boxed[i].rect < -(45 * VS) THEN 90 * VS + boxed[i].rect
                    ELSE IF boxed[i].rect > 45 * VS THEN boxed[i].rect - 90 * VS
                    ELSE boxed[i].rect)]
  IN  (linear \o ellipses) \o rects

calculate_signature_inclination(contours, regression, fails) ==
  IF contours = <<>> THEN 0
  ELSE
    LET inclinations == inclination_samples(contours, regression, fails)
        valid_inclinations ==
          SelectSeq(inclinations, LAMBDA inc : 0 <= inc /\ inc <= 60 * VS)
    IN  IF inclinations # <<>> THEN
          IF valid_inclinations # <<>> THEN Median(valid_inclinations)
          ELSE Median(inclinations)
        ELSE 15 * VS

\* ------------------------------------------------------------------------
\* The naturalness sub-scores (results at scale NS).  A contour is given by
\* what the functions measure on it:
\*   points        number of its points
\*   length        cv2.arcLength of it, px
\*   irregularity  std of its acceleration / its length, in 1/10000
\*   variation     std of its turning angles / their mean, in 1/100
\* raises tells that a NumPy or OpenCV call inside the try block raises.
\* ------------------------------------------------------------------------
RECURSIVE SumSeq(_)
SumSeq(q) == IF q = <<>> THEN 0 ELSE Head(q) + SumSeq(Tail(q))

\* float(np.mean(scores)) of a non-empty list
Mean(q) == Quot(SumSeq(q), Len(q))

calculate_fluidity_score(contours, raises) ==
  IF contours = <<>> THEN 0
  ELSE IF raises THEN 50 * NS
  ELSE
    LET valid == SelectSeq(contours,
                           LAMBDA c : c.points >= 10 /\ c.length > 0)
        smoothness_scores ==
          [i \in 1..Len(valid) |->
             Min(100 * NS,
                 Max(0, 100 * NS - Quot(valid[i].irregularity * 1000 * NS,
                                        10000)))]
    IN  IF Len(valid) = 0 THEN 50 * NS ELSE Mean(smoothness_scores)

\* ink_count is len(ink_pixels); pressure_mean and pressure_std are the
\* mean and std of 255 - ink_pixels (scale VS)
calculate_pressure_consistency(ink_count, pressure_mean, pressure_std, raises) ==
  IF raises THEN 50 * NS
  ELSE IF ink_count = 0 THEN 0
  ELSE IF ink_count < 10 THEN 0
  ELSE IF pressure_mean = 0 THEN 0
  ELSE
    \* 100 * abs(coefficient_variation - 0.20), at scale NS
    LET deviation == Quot(Abs(5 * pressure_std - pressure_mean) * 100 * NS,
                          5 * pressure_mean)
        consistency_score ==
          IF 10 * pressure_std >= pressure_mean
               /\ 10 * pressure_std <= 3 * pressure_mean
            THEN 100 * NS - deviation
          ELSE IF 20 * pressure_std >= pressure_mean
                    /\ 10 * pressure_std <= 4 * pressure_mean
            THEN 90 * NS - deviation
          ELSE Max(0, 50 * NS - deviation)
    IN  Min(100 * NS, Max(0, consistency_score))

calculate_coordination_index(contours, raises) ==
  IF contours = <<>> THEN 0
  ELSE IF raises THEN 50 * NS
  ELSE
    LET valid == SelectSeq(contours,
                           LAMBDA c : c.points >= 20 /\ c.length > 0)
        Score(normalized_variation) ==
          LET distance == Abs(normalized_variation - 55)
          IN  IF 30 <= normalized_variation /\ normalized_variation <= 80
                THEN 100 * NS - Quot(15 * NS * distance, 25)
              ELSE IF 10 <= normalized_variation /\ normalized_variation <= 120
                THEN 85 * NS - Quot(25 * NS * distance, 45)
              ELSE Max(0, 40 * NS - Quot(50 * NS * distance, 100))
        coordination_scores ==
          [i \in 1..Len(valid) |->
             Min(100 * NS, Max(0, Score(valid[i].variation)))]
    IN  IF Len(valid) = 0 THEN 50 * NS ELSE Mean(coordination_scores)

\* ------------------------------------------------------------------------
\* calculate_naturalness_index
\* ------------------------------------------------------------------------
naturalness_index_equal_weights(fluidity, pressure_consistency, coordination) ==
  LET naturalness == Quot(fluidity + pressure_consistency + coordination, 3)
  IN  Min(100 * NS, Max(0, naturalness))

calculate_naturalness_index(fluidity, pressure_consistency, coordination) ==
  LET naturalness == Quot(fluidity * 4 + pressure_consistency * 3
                            + coordination * 3, 10)
  IN  Min(100 * NS, Max(0, naturalness))

\* ------------------------------------------------------------------------
\* analyze_signature_with_dimensions(image_path, real_width_mm, real_height_mm)
\* real_width_mm and real_height_mm are whole millimetres.  The result is
\* [data |-> the returned dict, raised |-> the exception caught by the
\* outer handler, "" if none].
\* ------------------------------------------------------------------------
ErrorDict(msg) == << <<"error", Str(msg)>> >>

Outcome(d, e) == [data |-> d, raised |-> e]

\* a calibration that ignores the physical size (300 dpi)
calibration_fixed_dpi(image, real_width_mm, real_height_mm) ==
  [x |-> 1181, y |-> 1181, avg |-> 1181]

\* pixels_per_mm_x, pixels_per_mm_y and their mean, for non-zero sizes
Calibration(image, real_width_mm, real_height_mm) ==
  LET pixels_per_mm_x == Quot(image.width * VS, real_width_mm)
      pixels_per_mm_y == Quot(image.height * VS, real_height_mm)
  IN  [x |-> pixels_per_mm_x, y |-> pixels_per_mm_y,
       avg |-> Quot(pixels_per_mm_x + pixels_per_mm_y, 2)]

\* max() over an empty contour list
no_contours_unchecked(image) ==
  Outcome(ErrorDict("max() arg is an empty sequence"), "ValueError")

\* if not contours: return {"error": ...}
no_contours(image) ==
  Outcome(ErrorDict("Nessun contorno trovato nell'immagine"), "")

analyze_signature_with_dimensions(image, real_width_mm, real_height_mm) ==
  IF ~image.readable
    THEN Outcome(ErrorDict("Impossibile leggere l'immagine"), "ValueError")
  ELSE IF real_width_mm = 0 \/ real_height_mm = 0
    THEN Outcome(ErrorDict("float division by zero"), "ZeroDivisionError")
  ELSE IF image.contours = 0
    THEN no_contours(image)
  ELSE IF image.fails \in UnguardedFeatures
    THEN Outcome(ErrorDict("error in " \o image.fails), "Exception")
  ELSE
    LET calibration == Calibration(image, real_width_mm, real_height_mm)
        pixels_per_mm_x == calibration.x
        pixels_per_mm_y == calibration.y
        pixels_per_mm == calibration.avg
        actual_width_mm ==
          IF image.contours_orig > 0
            THEN Quot(image.w_orig * VS * VS, pixels_per_mm_x)
            ELSE real_width_mm * VS
        actual_height_mm ==
          IF image.contours_orig > 0
            THEN Quot(image.h_orig * VS * VS, pixels_per_mm_y)
            ELSE real_height_mm * VS
        proportion ==
          IF actual_height_mm > 0
            THEN Quot(actual_width_mm * VS, actual_height_mm) ELSE 1 * VS
        inclination ==
          IF image.fails = "inclination" THEN 15 * VS ELSE image.inclination
        letter_connections ==
          IF image.fails = "connections" THEN 1 ELSE image.letter_connections
        fluidity_score ==
          IF image.fails = "fluidity" THEN 50 * NS ELSE image.fluidity
        pressure_consistency ==
          IF image.fails = "pressure_consistency" THEN 50 * NS
          ELSE image.pressure_consistency
        coordination_index ==
          IF image.fails = "coordination" THEN 50 * NS
          ELSE image.coordination
        curvature == IF image.main_points >= 3 THEN image.curvature ELSE 0
        readability ==
          IF image.pressure_mean > 90 * VS THEN "Alta"
          ELSE IF image.pressure_mean > 60 * VS THEN "Media" ELSE "Bassa"
        style ==
          IF proportion > 2 * VS THEN "Corsivo"
          ELSE IF 10 * proportion < 12 * VS THEN "Stampatello" ELSE "Misto"
        avg_asola_size_mm ==
          IF image.asola_area > 0
            THEN IF pixels_per_mm * pixels_per_mm = 0 THEN Inf
                 ELSE Num(Quot(image.asola_area * VS * VS * VS,
                               pixels_per_mm * pixels_per_mm))
            ELSE Num(0)
        avg_spacing_mm == Quot(image.spacing_px * VS, pixels_per_mm_x)
        straight_distance ==
          IF image.contours_orig > 0
            THEN Hypot(image.w_orig, image.h_orig)
            ELSE Hypot(image.w, image.h)
        velocity ==
          IF straight_distance > 0
            THEN Quot(image.total_length * VS, straight_distance)
            ELSE image.total_length * VS * 100000
        overlap_ratio ==
          IF image.w * image.h > 0
            THEN Quot(image.ink * VS, image.w * image.h) ELSE 0
        baseline_std_mm ==
          IF pixels_per_mm_y > 0
            THEN Quot(image.baseline_std_px * VS, pixels_per_mm_y) ELSE 0
        stroke_complexity ==
          IF image.w * image.h > 0
            THEN Quot(image.points * VS, image.w * image.h) ELSE 0
        naturalness_index ==
          calculate_naturalness_index(fluidity_score, pressure_consistency,
                                      coordination_index)
    IN  Outcome(
          << <<"real_width_mm", Num(real_width_mm * VS)>>,
             <<"real_height_mm", Num(real_height_mm * VS)>>,
             <<"pixels_per_mm", Num(pixels_per_mm)>>,
             <<"Proportion", Num(proportion)>>,
             <<"Inclination", Num(inclination)>>,
             <<"PressureMean", Num(image.pressure_mean)>>,
             <<"PressureStd", Num(image.pressure_std)>>,
             <<"AvgCurvature", Num(curvature)>>,
             <<"Readability", Str(readability)>>,
             <<"WritingStyle", Str(style)>>,
             <<"AvgAsolaSize", avg_asola_size_mm>>,
             <<"AvgSpacing", Num(avg_spacing_mm)>>,
             <<"Velocity", Num(velocity)>>,
             <<"OverlapRatio", Num(overlap_ratio)>>,
             <<"LetterConnections", Num(letter_connections * VS)>>,
             <<"BaselineStdMm", Num(baseline_std_mm)>>,
             <<"StrokeComplexity", Num(stroke_complexity)>>,
             <<"ConnectedComponents", Num(image.contours * VS)>>,
             <<"Dimensions", Pair(actual_width_mm, actual_height_mm)>>,
             <<"FluidityScore", Num(fluidity_score)>>,
             <<"PressureConsistency", Num(pressure_consistency)>>,
             <<"CoordinationIndex", Num(coordination_index)>>,
             <<"NaturalnessIndex", Num(naturalness_index)>> >>, "")

\* ------------------------------------------------------------------------
\* analyze_signature of src/advanced_signature_analyzer.py.  The
\* measurements its helpers take on the Otsu mask are read from the same
\* image record (strokes of one image are alike, so the relative spread of
\* their areas is 0); every helper catches its own exceptions.  now is the
\* reading of datetime.now().
\* ------------------------------------------------------------------------
Text(a, b, unit) == [t |-> "text", v |-> a, w |-> b, s |-> unit]

estimate_writing_velocity(spacing, curvature) ==
  LET spaced ==
        IF spacing.t = "inf" THEN 3 * VS
        ELSE IF spacing.v > 0
          THEN Quot(VS * (VS + Min(Quot(spacing.v, 3), 2 * VS)), VS)
        ELSE VS
      curved ==
        IF curvature > 0
          THEN Quot(spaced * (VS - Min(Quot(curvature, 10), (8 * VS) \div 10)),
                    VS)
          ELSE spaced
  IN  Max(curved, VS \div 10)

analyze_signature(image, real_width_mm, real_height_mm, now) ==
  IF ~image.readable
    THEN << <<"error", Str("File non trovato")>>, <<"timestamp", Num(now)>> >>
  ELSE IF real_width_mm = 0 \/ real_height_mm = 0
    THEN << <<"error", Str("float division by zero")>>,
            <<"timestamp", Num(now)>> >>
  ELSE
    LET calibration == Calibration(image, real_width_mm, real_height_mm)
        pixels_per_mm == calibration.avg
        proportion == Quot(real_height_mm * VS, real_width_mm)
        inclination == IF image.contours = 0 THEN 0 ELSE image.inclination
        pressure_mean ==
          IF image.ink = 0 THEN 0
          ELSE Quot((255 * VS - image.pressure_mean) * 100, 255)
        pressure_std ==
          IF image.ink = 0 THEN 0 ELSE Quot(image.pressure_std * 100, 255)
        avg_curvature ==
          IF image.contours = 0 \/ image.main_points <= 10 THEN 0
          ELSE Quot(image.curvature * pixels_per_mm, VS * VS)
        writing_style ==
          IF image.contours = 0 THEN "Sconosciuto"
          ELSE IF Abs(inclination) < 15 * VS /\ avg_curvature < 2 * VS
            THEN "Regolare"
          ELSE IF avg_curvature > 5 * VS THEN "Corsiva"
          ELSE IF Abs(inclination) > 20 * VS THEN "Inclinata"
          ELSE "Mista"
        readability == IF image.contours = 0 THEN "Bassa" ELSE "Alta"
        avg_asola_size ==
          IF image.asola_area > 50 /\ pixels_per_mm # 0
            THEN Quot(image.asola_area * VS * VS * VS,
                      pixels_per_mm * pixels_per_mm)
            ELSE 0
        avg_spacing ==
          IF image.contours < 2 THEN Num(0)
          ELSE IF pixels_per_mm = 0 THEN Inf
          ELSE Num(Quot(image.spacing_px * VS, pixels_per_mm))
        velocity == estimate_writing_velocity(avg_spacing, avg_curvature)
        baseline_std_mm ==
          IF image.contours < 2 THEN Num(0)
          ELSE IF pixels_per_mm = 0 THEN Inf
          ELSE Num(Quot(image.baseline_std_px * VS, pixels_per_mm))
        stroke_complexity ==
          IF image.contours = 0 THEN 0
          ELSE Min(VS, Quot(image.main_points * VS, 4 * 10))
    IN  << <<"proportion", Num(proportion)>>,
           <<"inclination", Num(inclination)>>,
           <<"pressureMean", Num(pressure_mean)>>,
           <<"pressureStd", Num(pressure_std)>>,
           <<"avgCurvature", Num(avg_curvature)>>,
           <<"writingStyle", Str(writing_style)>>,
           <<"readability", Str(readability)>>,
           <<"avgAsolaSize", Num(avg_asola_size)>>,
           <<"avgSpacing", avg_spacing>>,
           <<"velocity", Num(velocity)>>,
           <<"overlapRatio", Num(0)>>,
           <<"letterConnections", Num(image.letter_connections * VS)>>,
           <<"baselineStdMm", baseline_std_mm>>,
           <<"connectedComponents", Num(Max(1, image.contours) * VS)>>,
           <<"strokeComplexity", Num(stroke_complexity)>>,
           <<"timestamp", Num(now)>>,
           <<"imageSize", Text(image.width, image.height, "x")>>,
           <<"calibration", Text(pixels_per_mm, 0, "px/mm")>> >>

\* ------------------------------------------------------------------------
\* normalize_parameter_keys
\* ------------------------------------------------------------------------
key_mapping ==
  << <<"inclination", "Inclination">>, <<"Inclination", "Inclination">>,
     <<"pressureMean", "PressureMean">>, <<"pressure_mean", "PressureMean">>,
     <<"PressureMean", "PressureMean">>,
     <<"pressureStd", "PressureStd">>, <<"pressure_std", "PressureStd">>,
     <<"PressureStd", "PressureStd">>,
     <<"proportion", "Proportion">>, <<"Proportion", "Proportion">>,
     <<"avgSpacing", "AvgSpacing">>, <<"avg_spacing", "AvgSpacing">>,
     <<"AvgSpacing", "AvgSpacing">>,
     <<"velocity", "Velocity">>, <<"Velocity", "Velocity">>,
     <<"avgCurvature", "AvgCurvature">>, <<"avg_curvature", "AvgCurvature">>,
     <<"AvgCurvature", "AvgCurvature">>,
     <<"curvature", "Curvature">>, <<"Curvature", "Curvature">>,
     <<"avgAsolaSize", "AvgAsolaSize">>, <<"avg_asola_size", "AvgAsolaSize">>,
     <<"AvgAsolaSize", "AvgAsolaSize">>,
     <<"overlapRatio", "OverlapRatio">>, <<"overlap_ratio", "OverlapRatio">>,
     <<"OverlapRatio", "OverlapRatio">>,
     <<"letterConnections", "LetterConnections">>,
     <<"letter_connections", "LetterConnections">>,
     <<"LetterConnections", "LetterConnections">>,
     <<"baselineStd", "BaselineStd">>, <<"baseline_std", "BaselineStd">>,
     <<"BaselineStd", "BaselineStd">>,
     <<"baselineStdMm", "BaselineStdMm">>,
     <<"baseline_std_mm", "BaselineStdMm">>,
     <<"BaselineStdMm", "BaselineStdMm">> >>

\* key_mapping.get(key, key)
MapKey(key) ==
  IF \E i \in 1..Len(key_mapping) : key_mapping[i][1] = key
    THEN key_mapping[CHOOSE i \in 1..Len(key_mapping) :
                       key_mapping[i][1] = key][2]
    ELSE key

\* d[k] = value for the first n keys of a list of mapping entries
RECURSIVE PutAll(_, _, _, _)
PutAll(n, d, entries, value) ==
  IF n = 0 THEN d
  ELSE Put(PutAll(n - 1, d, entries, value), entries[n][1], value)

\* the inner loop over key_mapping.items(): every other spelling of
\* normalized_key gets the value, in the order of the table
Backfill(normalized, key, normalized_key, value) ==
  LET Other(entry) == entry[2] = normalized_key /\ entry[1] # key
      others == SelectSeq(key_mapping, Other)
  IN  PutAll(Len(others), normalized, others, value)

\* a pass that keeps only the keys of the table
normalize_item_known_only(normalized, key, value) ==
  IF \E i \in 1..Len(key_mapping) : key_mapping[i][1] = key
    THEN Backfill(Put(normalized, MapKey(key), value), key, MapKey(key), value)
    ELSE normalized

\* one pass of the loop over data.items()
NormalizeItem(normalized, key, value) ==
  LET normalized_key == MapKey(key)
      stored == Put(normalized, normalized_key, value)
  IN  IF \E i \in 1..Len(key_mapping) : key_mapping[i][2] = normalized_key
        THEN Backfill(stored, key, normalized_key, value)
        ELSE stored

\* the loop over data.items() from item n on, normalized being the dict
\* built by the items before it
RECURSIVE NormalizeLoop(_, _, _)
NormalizeLoop(n, normalized, data) ==
  IF n > Len(data) THEN normalized
  ELSE LET after == NormalizeItem(normalized, data[n][1], data[n][2])
       IN  IF Len(after) > 0 THEN NormalizeLoop(n + 1, after, data)
           ELSE normalized

normalize_parameter_keys(data) == NormalizeLoop(1, <<>>, data)

\* ------------------------------------------------------------------------
\* create_comparison_chart: the exception it raises, "" when it returns
\* the picture
\* ------------------------------------------------------------------------
parametri_numerici ==
  <<"Proportion", "Inclination", "PressureMean", "PressureStd",
    "AvgCurvature", "Curvature", "Readability",
    "AvgAsolaSize", "AvgSpacing", "Velocity",
    "OverlapRatio", "LetterConnections", "BaselineStd", "BaselineStdMm",
    "StrokeWidth", "StrokeComplexity", "ConnectedComponents",
    "AspectRatio", "Area", "Perimeter",
    "Width", "Height", "DiagonalLength">>

\* isinstance(x, (int, float))
IsNumber(x) == x.t \in {"num", "inf"}

\* d.get(k, 0)
GetOrZero(d, k) == IF Has(d, k) THEN Get(d, k) ELSE Num(0)

create_comparison_chart(verifica_data_in, comp_data_in) ==
  LET verifica_data == normalize_parameter_keys(verifica_data_in)
      comp_data == normalize_parameter_keys(comp_data_in)
      Available(param) ==
        \/ Has(verifica_data, param) /\ IsNumber(Get(verifica_data, param))
        \/ Has(comp_data, param) /\ IsNumber(Get(comp_data, param))
      parametri_disponibili == SelectSeq(parametri_numerici, Available)
      Subtracts(param) ==
        /\ IsNumber(GetOrZero(verifica_data, param))
        /\ IsNumber(GetOrZero(comp_data, param))
      BothZero(param) ==
        /\ GetOrZero(verifica_data, param) = Num(0)
        /\ GetOrZero(comp_data, param) = Num(0)
  IN  IF \E i \in 1..Len(parametri_disponibili) :
           ~Subtracts(parametri_disponibili[i])
        THEN "unsupported operand type(s) for -"
      ELSE IF /\ Len(parametri_disponibili) > 0
              /\ BothZero(parametri_disponibili[1])
        THEN "local variable 'parametro_nome' referenced before assignment"
      ELSE ""

\* ------------------------------------------------------------------------
\* create_descriptive_report: the exception it raises, "" when it returns
\* the text.  The subscripts are evaluated in this order.
\* ------------------------------------------------------------------------
ReportSubscripts ==
  <<"Velocity", "Proportion", "PressureMean", "Inclination", "AvgSpacing">>

descriptive_report_never_fails(verifica_data_in, comp_data_in) == ""

create_descriptive_report(verifica_data_in, comp_data_in) ==
  LET verifica_data == normalize_parameter_keys(verifica_data_in)
      comp_data == normalize_parameter_keys(comp_data_in)
      Missing(i) == \/ ~Has(verifica_data, ReportSubscripts[i])
                    \/ ~Has(comp_data, ReportSubscripts[i])
  IN  IF \E i \in 1..Len(ReportSubscripts) : Missing(i)
        THEN "'" \o ReportSubscripts[
                      CHOOSE i \in 1..Len(ReportSubscripts) :
                        Missing(i) /\ \A j \in 1..(i - 1) : ~Missing(j)]
                 \o "'"
        ELSE ""

\* ------------------------------------------------------------------------
\* compare_signatures_with_dimensions.  ssim is what structural_similarity
\* returns for the two preprocessed images; report is what the PDF step
\* does: "off" (generate_report false), "path" (file written), "none"
\* (generate_pdf_report returned None), "raise" (it raised), "nodir"
\* (tempfile.mkdtemp raised).  The result is
\* [result |-> the returned dict, steps |-> the stages run, in order].
\* ------------------------------------------------------------------------
\* str.upper() on the verdicts
Upper(s) ==
  CASE s = "Autentica" -> "AUTENTICA"
    [] s = "Probabilmente Autentica" -> "PROBABILMENTE AUTENTICA"
    [] s = "Probabilmente autentica" -> "PROBABILMENTE AUTENTICA"
    [] s = "Sospetta" -> "SOSPETTA"
    [] s = "Probabilmente Falsa" -> "PROBABILMENTE FALSA"
    [] s = "Probabilmente falsa" -> "PROBABILMENTE FALSA"
    [] s = "Incerta" -> "INCERTA"
    [] s = "Possibile copia abile" -> "POSSIBILE COPIA ABILE"
    [] s = "Autentica dissimulata" -> "AUTENTICA DISSIMULATA"
    [] s = "Non determinato" -> "NON DETERMINATO"
    [] OTHER -> s

\* The final verdict printed by generate_pdf_report ("ESITO FINALE: ..."),
\* from the descriptor of the questioned signature; case_verdict is
\* case_info['verdict'], "" when case_info has none.
generate_pdf_report_verdict(verifica_data, case_verdict) ==
  LET similarity ==
        IF Has(verifica_data, "similarity")
          THEN Get(verifica_data, "similarity").v ELSE 0
      similarity_percentage ==
        IF similarity <= VS THEN similarity * 100 ELSE similarity
      naturalness_verifica ==
        IF Has(verifica_data, "naturalnessScore")
          THEN Get(verifica_data, "naturalnessScore").v
        ELSE IF Has(verifica_data, "NaturalnessIndex")
          THEN Get(verifica_data, "NaturalnessIndex").v
        ELSE 0
      verdict ==
        IF similarity_percentage >= 85 * VS /\ naturalness_verifica >= 80 * NS
          THEN "Autentica"
        ELSE IF similarity_percentage >= 65 * VS
                  /\ naturalness_verifica >= 60 * NS
          THEN "Probabilmente Autentica"
        ELSE IF similarity_percentage < 55 * VS
                  /\ naturalness_verifica >= 80 * NS
          THEN "Sospetta"
        ELSE IF similarity_percentage < 65 * VS
                  /\ naturalness_verifica < 60 * NS
          THEN "Probabilmente Falsa"
        ELSE "Incerta"
  IN  Upper(IF case_verdict # "" THEN case_verdict ELSE verdict)

ErrorResult(msg) == [error |-> msg]

NaturalnessOr50(d) ==
  IF Has(d, "NaturalnessIndex") THEN Get(d, "NaturalnessIndex").v ELSE 50 * NS

\* avg_naturalness = (verifica_naturalness + reference_naturalness) / 2.0
AvgNaturalness(verifica_data, comp_data) ==
  Quot(NaturalnessOr50(verifica_data) + NaturalnessOr50(comp_data), 2)

\* "naturalness": avg_naturalness / 100.0, at scale FS
NaturalnessField(avg_naturalness) == Quot(avg_naturalness * FS, 100 * NS)

\* a report step whose exceptions all escape
report_step_uncaught(report) ==
  [report_path |-> IF report = "path" THEN "pdf" ELSE "None",
   raised |-> IF report = "nodir" THEN "mkdtemp"
              ELSE IF report = "raise" THEN "generate_pdf_report" ELSE ""]

\* the report step: tempfile.mkdtemp() runs outside the inner try, the call
\* of generate_pdf_report inside it; raised is the exception that escapes
report_step(report) ==
  [report_path |-> IF report = "path" THEN "pdf" ELSE "None",
   raised |-> IF report = "nodir" THEN "mkdtemp" ELSE ""]

compare_signatures_with_dimensions(verifica, comp, verifica_dims, reference_dims, ssim, report) ==
  IF ~verifica.readable \/ ~comp.readable
    THEN [result |-> ErrorResult("Impossibile leggere una o entrambe le immagini"),
          steps |-> <<"imread", "raise ValueError">>]
  ELSE
    LET similarity == ssim
        analysed == <<"imread", "preprocess", "ssim", "analyze verifica",
                      "analyze comp", "normalize", "comparison_chart">>
        described == analysed \o <<"naturalness_chart", "descriptive_report">>
        reported ==
          described \o (IF report = "off" THEN <<>>
                        ELSE <<"mkdtemp", "generate_pdf_report">>)
        \* the steps from the normalisation on, given the two descriptors
        AfterExtraction(verifica_data, comp_data) ==
          LET verifica_data_normalized == normalize_parameter_keys(verifica_data)
              comp_data_normalized == normalize_parameter_keys(comp_data)
              chart_error == create_comparison_chart(verifica_data_normalized,
                                                     comp_data_normalized)
              description_error ==
                create_descriptive_report(verifica_data, comp_data)
              score == parameters_score(verifica_data, comp_data)
              \* the classification and the result, given the two scores
              AfterScoring(final, avg_naturalness) ==
                LET classified ==
                      classify_signature_intelligent(final, avg_naturalness)
                IN  [result |->
                       [similarity |-> final,
                        naturalness |-> NaturalnessField(avg_naturalness),
                        verdict |-> classified.verdict,
                        confidence |-> classified.confidence,
                        explanation |-> classified.explanation,
                        verifica_parameters |-> verifica_data,
                        reference_parameters |-> comp_data,
                        comparison_chart |-> "png",
                        naturalness_chart |-> "png",
                        description |-> "text",
                        report_path |-> report_step(report).report_path],
                     steps |-> reported \o <<"score", "classify", "return">>]
          IN  IF chart_error # ""
                THEN [result |-> ErrorResult(chart_error),
                      steps |-> analysed \o <<"raise">>]
              ELSE IF description_error # ""
                THEN [result |-> ErrorResult(description_error),
                      steps |-> described \o <<"raise KeyError">>]
              ELSE IF report_step(report).raised # ""
                THEN [result |-> ErrorResult(report_step(report).raised),
                      steps |-> described \o <<"mkdtemp", "raise OSError">>]
              ELSE
                CHOOSE out \in
                  {AfterScoring(final, avg_naturalness) :
                     final \in {final_similarity(similarity, score)},
                     avg_naturalness \in
                       {AvgNaturalness(verifica_data, comp_data)}} :
                  TRUE
    IN  CHOOSE out \in
          {AfterExtraction(verifica_data, comp_data) :
             verifica_data \in
               {analyze_signature_with_dimensions(
                  verifica, verifica_dims[1], verifica_dims[2]).data},
             comp_data \in
               {analyze_signature_with_dimensions(
                  comp, reference_dims[1], reference_dims[2]).data}} : TRUE

\* ------------------------------------------------------------------------
\* The deprecated DPI entry points
\* ------------------------------------------------------------------------
analyze_signature_deprecated_dpi_removed ==
  ErrorResult("Funzione rimossa - utilizzare analyze_signature_with_dimensions con dimensioni reali")

compare_signatures_deprecated(verifica, comp, generate_report, dpi) ==
  ErrorResult("Funzione deprecata - utilizzare sempre dimensioni reali invece di DPI")

\* ------------------------------------------------------------------------
\* adapt_parameters_for_json: a pair of numbers becomes
\* {"width": round(a, 1), "height": round(b, 1)}, the rest is kept
\* ------------------------------------------------------------------------
\* round(x, 1) on a value in hundredths, ties to even
Round1(x) ==
  LET a == Abs(x)
      q == a \div 10
      r == a % 10
      up == IF r > 5 \/ (r = 5 /\ q % 2 = 1) THEN q + 1 ELSE q
  IN  IF x < 0 THEN -(up * 10) ELSE up * 10

Size(a, b) == [t |-> "size", v |-> Round1(a), w |-> Round1(b), s |-> ""]

adapt_parameters_for_json(params) ==
  [i \in 1..Len(params) |->
     IF params[i][2].t = "pair"
       THEN <<params[i][1], Size(params[i][2].v, params[i][2].w)>>
       ELSE params[i]] \o <<>>

\* ------------------------------------------------------------------------
\* __main__, comparison mode.  A dimensions option is described by its
\* form on the command line:
\*   "absent"   the flag is not given
\*   "novalue"  the flag is the last argument
\*   "short"    the value has no 'x' ("50")
\*   "long"     the value has two 'x' ("50x25x3")
\*   "text"     a part is not a number ("50xabc"): float() raises
\*   "ok"       "<w>x<h>", dims being the pair read
\* The parsed option is the pair, or <<>> for None.
\* ------------------------------------------------------------------------
parse_dimensions_guessing(option) ==
  IF option.form = "ok" THEN option.dims ELSE <<50, 25>>

parse_dimensions(option) ==
  IF option.form = "ok" THEN option.dims ELSE <<>>

\* argv is [files_given, verifica, comp, verifica_dimensions,
\* reference_dimensions, ssim, report]; the result is [result |-> what is
\* printed (or the exit status when nothing is), steps |-> the calls made]
main(argv) ==
  IF ~argv.files_given
    THEN [result |-> [exit |-> 1], steps |-> <<"usage">>]
  ELSE
    LET verifica_dimensions == parse_dimensions(argv.verifica_dimensions)
        reference_dimensions == parse_dimensions(argv.reference_dimensions)
    IN  IF verifica_dimensions # <<>> /\ reference_dimensions # <<>>
          THEN LET Printed(out) ==
                     [result |->
                        IF "verifica_parameters" \in DOMAIN out.result
                          THEN [out.result EXCEPT
                                  !.verifica_parameters =
                                     adapt_parameters_for_json(@),
                                  !.reference_parameters =
                                     adapt_parameters_for_json(@)]
                          ELSE out.result,
                      steps |-> <<"compare_signatures_with_dimensions">>
                                  \o out.steps \o <<"print">>]
               IN  CHOOSE printed \in
                     {Printed(out) :
                        out \in {compare_signatures_with_dimensions(
                                   argv.verifica, argv.comp,
                                   verifica_dimensions, reference_dimensions,
                                   argv.ssim, argv.report)}} : TRUE
          ELSE [result |-> ErrorResult("Dimensioni reali obbligatorie per entrambe le firme"),
                steps |-> <<"print">>]

\* ------------------------------------------------------------------------
\* State: one call of one operation.  pc is "call" while the operation
\* named by op is about to run on args, and "done" once it has returned
\* ret; steps lists the pipeline stages the call went through.  The lists
\* of the interactive tool stay empty outside SpecTool.
\* ------------------------------------------------------------------------
NoValue == [none |-> TRUE]

\* the module-level lists of the tool as created, and its empty canvases
NothingLoaded ==
  /\ firme_verifica = <<>>
  /\ firme_comparative = <<>>
  /\ firme_verifica_images = <<>>
  /\ firme_comparative_images = <<>>
  /\ canvas_verifica = <<>>
  /\ canvas_comparative = <<>>

Call(o, a) ==
  /\ pc = "call"
  /\ op = o
  /\ args = a
  /\ ret = NoValue
  /\ steps = <<>>
  /\ NothingLoaded

Return(r, st) ==
  /\ pc' = "done"
  /\ ret' = r
  /\ steps' = st
  /\ UNCHANGED <<op, args, tool_vars>>

\* The sampled classification square: similarity in [0,1], naturalness in
\* [0,100], Grid points per percent on each axis.
SimilarityGrid == {(k * FS) \div (100 * Grid) : k \in 0..(100 * Grid)}

NaturalnessGrid == {(k * NS) \div Grid : k \in 0..(100 * Grid)}

InitClassify ==
  \E s \in SimilarityGrid, n \in NaturalnessGrid :
    Call("classify", [similarity_pct |-> s, naturalness_pct |-> n])

Classify ==
  /\ pc = "call"
  /\ op = "classify"
  /\ Return(classify_signature_intelligent(args.similarity_pct,
                                           args.naturalness_pct), <<>>)

NextClassify == Classify

SpecClassify == InitClassify /\ [][NextClassify]_vars

\* ------------------------------------------------------------------------
\* Calls of calculate_parameter_compatibility on pairs of values
\* ------------------------------------------------------------------------
ParameterNames == {key_parameters[i][1] : i \in 1..Len(key_parameters)}

\* finite numbers at scale VS: every value up to MaxV in magnitude, and two
\* values of much larger magnitude
CompatNumbers == (-MaxV..MaxV) \cup {-BigV, BigV}

ReadabilityLabels ==
  {"Alta", "Media", "Bassa", "ALTA", "High", "Medium", "Low"}

StyleLabels == {"Corsivo", "Stampatello", "Misto"}

CompatValues(name) ==
  {Num(v) : v \in CompatNumbers} \cup {None}
    \cup (IF name = "Readability" THEN {Str(l) : l \in ReadabilityLabels}
          ELSE IF name = "WritingStyle" THEN {Str(l) : l \in StyleLabels}
          ELSE IF name = "AvgAsolaSize" THEN {Inf}
          ELSE {})

InitCompat ==
  \E name \in ParameterNames :
    \E a \in CompatValues(name), b \in CompatValues(name) :
      Call("compat", [ref_val |-> a, ver_val |-> b, param_name |-> name])

Compat ==
  /\ pc = "call"
  /\ op = "compat"
  /\ Return([value |-> calculate_parameter_compatibility(
                         args.ref_val, args.ver_val, args.param_name)], <<>>)

NextCompat == Compat

SpecCompat == InitCompat /\ [][NextCompat]_vars

\* ------------------------------------------------------------------------
\* The weighted scoring loop of the comparator on two given descriptors
\* ------------------------------------------------------------------------
RECURSIVE Pow(_, _)
Pow(b, e) == IF e = 0 THEN 1 ELSE b * Pow(b, e - 1)

\* value of the i-th key parameter in the sample descriptor number p:
\* all numeric features are zero in descriptor 1
ProfileValue(p, i) ==
  LET name == key_parameters[i][1]
  IN  IF name = "WritingStyle"
        THEN Str(IF p % 3 = 1 THEN "Corsivo"
                 ELSE IF p % 3 = 2 THEN "Misto" ELSE "Stampatello")
      ELSE IF name = "Readability"
        THEN Str(IF p % 3 = 1 THEN "Alta"
                 ELSE IF p % 3 = 2 THEN "Media" ELSE "Bassa")
      ELSE IF p = 1 THEN Num(0)
      ELSE Num(100 + Pow(i, p - 1))

\* descriptor p without the keys of the set missing
RECURSIVE ProfileUpTo(_, _, _)
ProfileUpTo(n, p, missing) ==
  IF n = 0 THEN <<>>
  ELSE LET d == ProfileUpTo(n - 1, p, missing)
       IN  IF key_parameters[n][1] \in missing THEN d
           ELSE Append(d, <<key_parameters[n][1], ProfileValue(p, n)>>)

Profile(p, missing) == ProfileUpTo(Len(key_parameters), p, missing)

MissingSets ==
  {m \in SUBSET ParameterNames : Cardinality(m) <= MaxMissing}
    \cup {ParameterNames, ParameterNames \ {"Readability"}}

ScoreDescriptors ==
  {Profile(p, m) : p \in 1..MaxProfiles, m \in MissingSets}

InitScore ==
  \E v \in ScoreDescriptors, c \in ScoreDescriptors :
    Call("score", [verifica_data |-> v, comp_data |-> c])

Score ==
  /\ pc = "call"
  /\ op = "score"
  /\ Return([parameters_score |->
               parameters_score(args.verifica_data, args.comp_data)], <<>>)

NextScore == Score

SpecScore == InitScore /\ [][NextScore]_vars

\* ------------------------------------------------------------------------
\* The naturalness index of one descriptor, and the average naturalness of
\* two descriptors as the comparator computes it
\* ------------------------------------------------------------------------
\* sub-scores on a grid over [0,100], and one value on each side of it
SubScores == {(i * 100 * NS) \div NatGrid : i \in 0..NatGrid}

SubScoreInputs == SubScores \cup {-(10 * NS), 120 * NS}

InitNaturalnessIndex ==
  \E f \in SubScoreInputs, p \in SubScoreInputs, c \in SubScoreInputs :
    Call("naturalness_index",
         [fluidity |-> f, pressure_consistency |-> p, coordination |-> c])

\* a descriptor reduced to its naturalness index; <<>> has none
IndexDescriptors ==
  {<<>>} \cup {<< <<"NaturalnessIndex", Num(
                      calculate_naturalness_index(f, p, c))>> >> :
                 f \in SubScores, p \in SubScores, c \in SubScores}

InitAvgNaturalness ==
  \E v \in IndexDescriptors, c \in IndexDescriptors :
    Call("avg_naturalness", [verifica_data |-> v, comp_data |-> c])

InitNaturalness == InitNaturalnessIndex \/ InitAvgNaturalness

NaturalnessIndex ==
  /\ pc = "call"
  /\ op = "naturalness_index"
  /\ Return([value |-> calculate_naturalness_index(
                         args.fluidity, args.pressure_consistency,
                         args.coordination)], <<>>)

AverageNaturalness ==
  /\ pc = "call"
  /\ op = "avg_naturalness"
  /\ \E avg \in {AvgNaturalness(args.verifica_data, args.comp_data)} :
       Return([avg_naturalness |-> avg,
               naturalness |-> NaturalnessField(avg)], <<>>)

NextNaturalness == NaturalnessIndex \/ AverageNaturalness

SpecNaturalness == InitNaturalness /\ [][NextNaturalness]_vars

\* ------------------------------------------------------------------------
\* Calls of the three naturalness sub-scores
\* ------------------------------------------------------------------------
\* contours too short for either score, long enough for the fluidity only,
\* long enough for both; of no length; smooth, uneven and erratic
SampleContours ==
  {[points |-> p, length |-> l, irregularity |-> i, variation |-> v] :
     p \in {5, 15, 25}, l \in {0, 100},
     i \in {0, 300, 2000}, v \in {5, 55, 100, 200}}

ContourLists ==
  UNION {[1..n -> SampleContours] : n \in 0..MaxContours}

InitFluidity ==
  \E cs \in ContourLists, r \in BOOLEAN :
    (\A i \in 1..Len(cs) : cs[i].variation = 55)
      /\ Call("fluidity", [contours |-> cs, raises |-> r])

InitCoordination ==
  \E cs \in ContourLists, r \in BOOLEAN :
    (\A i \in 1..Len(cs) : cs[i].irregularity = 0)
      /\ Call("coordination", [contours |-> cs, raises |-> r])

InitPressureConsistency ==
  \E n \in {0, 5, 1000}, m \in {0, 50 * VS, 100 * VS},
     s \in {0, 3 * VS, 10 * VS, 20 * VS, 35 * VS, 60 * VS}, r \in BOOLEAN :
    Call("pressure_consistency",
         [ink_count |-> n, pressure_mean |-> m, pressure_std |-> s,
          raises |-> r])

InitSubScore == InitFluidity \/ InitPressureConsistency \/ InitCoordination

Fluidity ==
  /\ pc = "call"
  /\ op = "fluidity"
  /\ Return([value |-> calculate_fluidity_score(args.contours, args.raises)],
            <<>>)

PressureConsistency ==
  /\ pc = "call"
  /\ op = "pressure_consistency"
  /\ Return([value |-> calculate_pressure_consistency(
                         args.ink_count, args.pressure_mean,
                         args.pressure_std, args.raises)], <<>>)

Coordination ==
  /\ pc = "call"
  /\ op = "coordination"
  /\ Return([value |-> calculate_coordination_index(args.contours,
                                                    args.raises)], <<>>)

NextSubScore == Fluidity \/ PressureConsistency \/ Coordination

SpecSubScore == InitSubScore /\ [][NextSubScore]_vars

\* ------------------------------------------------------------------------
\* Calls of calculate_signature_inclination
\* ------------------------------------------------------------------------
InclinedContours ==
  {[points |-> p, ellipse |-> e, rect |-> r] :
     p \in {2, 4, 12}, e \in {20 * VS, 75 * VS, 130 * VS},
     r \in {-(80 * VS), 30 * VS}}

InclinedLists == UNION {[1..n -> InclinedContours] : n \in 0..MaxContours}

Regressions ==
  {[angle |-> a, spread |-> s] : a \in {-(70 * VS), 10 * VS}, s \in BOOLEAN}

InitInclination ==
  \E cs \in InclinedLists, reg \in Regressions,
     f \in {"", "regression", "ellipse", "rect"} :
    Call("inclination", [contours |-> cs, regression |-> reg, fails |-> f])

Inclination ==
  /\ pc = "call"
  /\ op = "inclination"
  /\ Return([value |-> calculate_signature_inclination(
                         args.contours, args.regression, args.fails)], <<>>)

NextInclination == Inclination

SpecInclination == InitInclination /\ [][NextInclination]_vars

\* ------------------------------------------------------------------------
\* normalize_parameter_keys on small dicts: spellings of two alias groups,
\* a canonical name outside the table's legacy spellings, unknown keys
\* ------------------------------------------------------------------------
KeyPool ==
  {"inclination", "Inclination", "pressure_mean", "pressureMean",
   "PressureMean", "Readability", "Dimensions", "note"}

KeySeqs(n) ==
  {q \in [1..n -> KeyPool] : \A i, j \in 1..n : i # j => q[i] # q[j]}

\* a dict with the keys q, in that order, and the values vals
DictOf(q, vals) == [i \in 1..Len(q) |-> <<q[i], Num(vals[i])>>] \o <<>>

\* an argument that is not a dict is held in a one-element tuple
InitNormalize ==
  \/ \E n \in 0..MaxKeys :
       \E q \in KeySeqs(n), vals \in [1..n -> 1..2] :
         Call("normalize", [is_dict |-> TRUE, data |-> DictOf(q, vals)])
  \/ \E x \in {None, Num(1), Str("Alta")} :
       Call("normalize", [is_dict |-> FALSE, data |-> <<x>>])

\* the call returns the result; data is what the caller's object holds
\* after the call
Normalize ==
  /\ pc = "call"
  /\ op = "normalize"
  /\ Return([result |-> IF args.is_dict
                          THEN normalize_parameter_keys(args.data)
                          ELSE args.data,
             data |-> args.data], <<>>)

NextNormalize == Normalize

SpecNormalize == InitNormalize /\ [][NextNormalize]_vars

\* ------------------------------------------------------------------------
\* The pipeline: descriptor extraction of one image, comparison of two.
\* ------------------------------------------------------------------------
Sizes == {<<300, 150>>, <<600, 300>>}

AsolaAreas == {0, 100}

Images ==
  {Unreadable}
    \cup {Blank(sz[1], sz[2]) : sz \in Sizes}
    \cup {Signature(sz[1], sz[2], c, a, n) :
            sz \in Sizes, c \in 1..MaxContours, a \in AsolaAreas,
            n \in BOOLEAN}
    \cup {Failing(Signature(300, 150, MaxContours, 100, TRUE), f) :
            f \in GuardedFeatures \cup UnguardedFeatures}
    \cup {Detached(sz[1], sz[2], c) : sz \in Sizes, c \in 1..MaxContours}

\* physical sizes in mm as they reach the analyzer: positive, zero, negative
WidthsMm == {-50, 0, 50, 100}

HeightsMm == {-25, 0, 25, 50}

InitAnalyze ==
  \E img \in Images, rw \in WidthsMm, rh \in HeightsMm :
    Call("analyze", [image |-> img, real_width_mm |-> rw,
                     real_height_mm |-> rh])

Analyze ==
  /\ pc = "call"
  /\ op = "analyze"
  /\ \E out \in {analyze_signature_with_dimensions(
                args.image, args.real_width_mm, args.real_height_mm)} :
       Return(out.data,
               IF out.raised = "" THEN <<>> ELSE <<"raise " \o out.raised>>)

\* the files given to the comparator: an unreadable one, a blank page, a
\* fluent signature without loops and a drawn one with loops
CompareImages ==
  {Unreadable, Blank(300, 150)}
    \cup {Signature(300, 150, c, 0, TRUE) : c \in 1..MaxContours}
    \cup {Signature(300, 150, c, 100, FALSE) : c \in 1..MaxContours}

\* the physical sizes given with them: valid, zero width, negative height
DimPairs == {<<50, 25>>, <<0, 25>>, <<50, -25>>}

SsimValues == {-(2 * FS) \div 10, (5 * FS) \div 10, FS}

ReportOutcomes == {"off", "path", "none", "raise", "nodir"}

\* structural_similarity of an image with itself is 1.0
SsimOf(verifica, comp) == IF verifica = comp THEN {FS} ELSE SsimValues

InitCompare ==
  \E v \in CompareImages, c \in CompareImages, vd \in DimPairs,
     rd \in DimPairs, r \in ReportOutcomes :
    \E s \in SsimOf(v, c) :
      Call("compare", [verifica |-> v, comp |-> c, verifica_dims |-> vd,
                       reference_dims |-> rd, ssim |-> s, report |-> r])

Compare ==
  /\ pc = "call"
  /\ op = "compare"
  /\ \E out \in {compare_signatures_with_dimensions(
                args.verifica, args.comp, args.verifica_dims,
                args.reference_dims, args.ssim, args.report)} :
       Return(out.result, out.steps)

\* the forms of a dimensions option on the command line
DimOptions ==
  {[form |-> f, dims |-> <<>>] :
     f \in {"absent", "novalue", "short", "long", "text"}}
    \cup {[form |-> "ok", dims |-> d] : d \in DimPairs}

MainImages == {Unreadable, Signature(300, 150, 1, 0, TRUE)}

InitMain ==
  \E g \in BOOLEAN, v \in MainImages, c \in MainImages,
     vo \in DimOptions, ro \in DimOptions, r \in {"off", "path"} :
    \E s \in SsimOf(v, c) :
      Call("main", [files_given |-> g, verifica |-> v, comp |-> c,
                    verifica_dimensions |-> vo, reference_dimensions |-> ro,
                    ssim |-> s, report |-> r])

Main ==
  /\ pc = "call"
  /\ op = "main"
  /\ \E out \in {main(args)} :
       Return(out.result, out.steps)

InitDeprecated ==
  \/ \E v \in CompareImages, c \in CompareImages, g \in BOOLEAN,
        dpi \in {72, 300} :
       Call("compare_deprecated",
            [verifica |-> v, comp |-> c, generate_report |-> g, dpi |-> dpi])
  \/ Call("analyze_deprecated", NoValue)

Deprecated ==
  /\ pc = "call"
  /\ \/ /\ op = "compare_deprecated"
        /\ Return(compare_signatures_deprecated(
                    args.verifica, args.comp, args.generate_report, args.dpi),
                  <<>>)
     \/ /\ op = "analyze_deprecated"
        /\ Return(analyze_signature_deprecated_dpi_removed, <<>>)

\* the readings of datetime.now()
Clock == 1..MaxClock

InitAnalyzeSignature ==
  \E img \in Images, rw \in WidthsMm, rh \in HeightsMm, now \in Clock :
    Call("analyze_signature",
         [image |-> img, real_width_mm |-> rw, real_height_mm |-> rh,
          now |-> now])

AnalyzeSignature ==
  /\ pc = "call"
  /\ op = "analyze_signature"
  /\ Return(analyze_signature(args.image, args.real_width_mm,
                              args.real_height_mm, args.now), <<>>)

Init ==
  \/ InitAnalyze
  \/ InitCompare
  \/ InitMain
  \/ InitDeprecated
  \/ InitAnalyzeSignature

Next == Analyze \/ Compare \/ Main \/ Deprecated \/ AnalyzeSignature

Spec == Init /\ [][Next]_vars

\* ========================================================================
\* Properties
\* ========================================================================

\* The decision table of the specification (section 4.6), one row per
\* bullet, on s = similarity x 100 (scale FS) and n = naturalness (scale NS).
TableRowMatches(i, s, n) ==
  CASE i = 1 -> s >= 98 * FS
    [] i = 2 -> s >= 85 * FS /\ n >= 80 * NS
    [] i = 3 -> s >= 85 * FS /\ n < 60 * NS
    [] i = 4 -> 55 * FS <= s /\ s < 65 * FS /\ n >= 80 * NS
    [] i = 5 -> s < 55 * FS /\ n >= 80 * NS
    [] i = 6 -> s < 65 * FS /\ n < 60 * NS
    [] i = 7 -> 65 * FS <= s /\ s < 85 * FS
    [] i = 8 -> 60 * NS <= n /\ n < 80 * NS
    [] OTHER -> TRUE

TableRowResult(i, s, n) ==
  CASE i = 1 -> <<"Authentic", 98>>
    [] i = 2 -> <<"Authentic", 95>>
    [] i = 3 -> <<"Possible skilled copy", 70>>
    [] i = 4 -> <<"Authentic but deliberately disguised", 85>>
    [] i = 5 -> <<"Suspicious", 75>>
    [] i = 6 -> <<"Probably forged", 90>>
    [] i = 7 -> IF n >= 75 * NS THEN <<"Probably authentic", 75>>
                ELSE IF n < 50 * NS THEN <<"Suspicious", 60>>
                ELSE <<"Uncertain", 50>>
    [] i = 8 -> IF s >= 75 * FS THEN <<"Probably authentic", 75>>
                ELSE <<"Suspicious", 65>>
    [] OTHER -> <<"Uncertain", 50>>

FirstTableRow(s, n) ==
  CHOOSE i \in 1..9 :
    /\ TableRowMatches(i, s, n)
    /\ \A j \in 1..(i - 1) : ~TableRowMatches(j, s, n)

EnglishLabel(v) ==
  CASE v = "Autentica" -> "Authentic"
    [] v = "Possibile copia abile" -> "Possible skilled copy"
    [] v = "Autentica dissimulata" -> "Authentic but deliberately disguised"
    [] v = "Sospetta" -> "Suspicious"
    [] v = "Probabilmente falsa" -> "Probably forged"
    [] v = "Probabilmente autentica" -> "Probably authentic"
    [] v = "Incerta" -> "Uncertain"
    [] OTHER -> "?"

\* C1: for every similarity in [0,1] and naturalness in [0,100] the verdict
\* and the confidence returned by classify_signature_intelligent are those
\* of the first matching row of the section 4.6 table; (60, 85) gives
\* 'Autentica dissimulata' / 85 and (40, 40) gives 'Probabilmente falsa' / 90.
C1_FirstTableRowDecides ==
  (pc = "done" /\ op = "classify") =>
    LET s == args.similarity_pct * 100
        n == args.naturalness_pct
    IN  /\ <<EnglishLabel(ret.verdict), ret.confidence>>
             = TableRowResult(FirstTableRow(s, n), s, n)
        /\ (s = 60 * FS /\ n = 85 * NS) =>
             (ret.verdict = "Autentica dissimulata" /\ ret.confidence = 85)
        /\ (s = 40 * FS /\ n = 40 * NS) =>
             (ret.verdict = "Probabilmente falsa" /\ ret.confidence = 90)

C1_Witness ==
  /\ pc = "done"
  /\ op = "classify"
  /\ args.similarity_pct * 100 = 60 * FS
  /\ args.naturalness_pct = 85 * NS
  /\ ret.verdict = "Autentica dissimulata"

\* The outcomes of the classifier as pairwise disjoint regions of the
\* (similarity x 100, naturalness) square.
LeafRegion(i, s, n) ==
  CASE i = 1 -> s >= 98 * FS
    [] i = 2 -> 85 * FS <= s /\ s < 98 * FS /\ n >= 80 * NS
    [] i = 3 -> 85 * FS <= s /\ s < 98 * FS /\ n < 60 * NS
    [] i = 4 -> 55 * FS <= s /\ s < 65 * FS /\ n >= 80 * NS
    [] i = 5 -> s < 55 * FS /\ n >= 80 * NS
    [] i = 6 -> s < 65 * FS /\ n < 60 * NS
    [] i = 7 -> 65 * FS <= s /\ s < 85 * FS /\ n >= 75 * NS
    [] i = 8 -> 65 * FS <= s /\ s < 85 * FS /\ n < 50 * NS
    [] i = 9 -> 65 * FS <= s /\ s < 85 * FS /\ 50 * NS <= n /\ n < 75 * NS
    [] i = 10 -> 85 * FS <= s /\ s < 98 * FS /\ 60 * NS <= n /\ n < 80 * NS
    [] i = 11 -> s < 65 * FS /\ 60 * NS <= n /\ n < 80 * NS
    [] OTHER -> FALSE

LeafTriple(i) ==
  CASE i = 1 -> Triple("Autentica", 98, "Similarita quasi perfetta - firma identica")
    [] i = 2 -> Triple("Autentica", 95, "Alta similarita e movimenti naturali")
    [] i = 3 -> Triple("Possibile copia abile", 70, "Alta similarita ma movimenti innaturali")
    [] i = 4 -> Triple("Autentica dissimulata", 85, "Modificata intenzionalmente ma autentica")
    [] i = 5 -> Triple("Sospetta", 75, "Similarita troppo bassa - possibile imitazione naturale")
    [] i = 6 -> Triple("Probabilmente falsa", 90, "Bassa similarita e movimenti innaturali")
    [] i = 7 -> Triple("Probabilmente autentica", 75, "Similarita accettabile e movimenti naturali")
    [] i = 8 -> Triple("Sospetta", 60, "Similarita media ma movimenti innaturali")
    [] i = 9 -> Triple("Incerta", 50, "Similarita e naturalezza intermedie")
    [] i = 10 -> Triple("Probabilmente autentica", 75, "Alta similarita e naturalezza accettabile")
    [] OTHER -> Triple("Sospetta", 65, "Parametri nel range intermedio")

\* C2: the decision table is exhaustive and unambiguous: every point of
\* the square lies in exactly one outcome region, and the triple returned
\* is the triple of that region.
C2_ExactlyOneBranch ==
  (pc = "done" /\ op = "classify") =>
    LET s == args.similarity_pct * 100
        n == args.naturalness_pct
        hit == {i \in 1..11 : LeafRegion(i, s, n)}
    IN  /\ Cardinality(hit) = 1
        /\ \A i \in hit : ret = LeafTriple(i)

\* a point of the zone where the '65 <= sim < 85' rule and the
\* '60 <= nat < 80' rule both match
C2_Witness ==
  /\ pc = "done"
  /\ op = "classify"
  /\ args.similarity_pct * 100 = 70 * FS
  /\ args.naturalness_pct = 70 * NS
  /\ ret.verdict = "Incerta"

\* C3: similarity x 100 >= 98 gives 'Autentica' with confidence 98 for
\* every naturalness.
C3_PriorityRule ==
  (pc = "done" /\ op = "classify" /\ args.similarity_pct * 100 >= 98 * FS) =>
    (ret.verdict = "Autentica" /\ ret.confidence = 98)

C3_Witness ==
  /\ pc = "done"
  /\ op = "classify"
  /\ args.similarity_pct * 100 = 99 * FS
  /\ args.naturalness_pct = 70 * NS
  /\ ret.verdict = "Autentica"
  /\ ret.confidence = 98

\* C5: calculate_parameter_compatibility returns a value in [0,1] for every
\* feature name and every pair of finite values (both zero, opposite signs,
\* widely different magnitudes included); in the 'else' branch of the
\* relative-difference rule the value is in [0.10,1].
RelativeElseBranch(a, b, name) ==
  /\ name \notin {"WritingStyle", "Readability", "AvgAsolaSize", "BaselineStdMm"}
  /\ Max(Abs(a), Abs(b)) > 0
  /\ 100 * Abs(a - b) > 50 * Max(Abs(a), Abs(b))

C5_CompatibilityBounded ==
  (pc = "done" /\ op = "compat"
     /\ args.ref_val.t = "num" /\ args.ver_val.t = "num") =>
    /\ 0 <= ret.value
    /\ ret.value <= FS
    /\ RelativeElseBranch(args.ref_val.v, args.ver_val.v, args.param_name)
         => 10 * ret.value >= FS

\* opposite signs and widely different magnitudes, in the 'else' branch
C5_Witness ==
  /\ pc = "done"
  /\ op = "compat"
  /\ args.param_name = "Proportion"
  /\ args.ref_val = Num(BigV)
  /\ args.ver_val = Num(-1)
  /\ 10 * ret.value = FS

\* the key parameters that both descriptors carry
PresentInBoth(v, c) ==
  {i \in 1..Len(key_parameters) :
     Has(v, key_parameters[i][1]) /\ Has(c, key_parameters[i][1])}

RECURSIVE SumOver(_, _, _)
SumOver(S, v, c) ==
  IF S = {} THEN 0
  ELSE LET i == CHOOSE x \in S : TRUE
           name == key_parameters[i][1]
       IN  calculate_parameter_compatibility(Get(c, name), Get(v, name), name)
             * key_parameters[i][2]
           + SumOver(S \ {i}, v, c)

RECURSIVE WeightOver(_)
WeightOver(S) ==
  IF S = {} THEN 0
  ELSE LET i == CHOOSE x \in S : TRUE
       IN  key_parameters[i][2] + WeightOver(S \ {i})

\* C6: parameters_score is the weighted average of the compatibilities of
\* exactly the key parameters present in both descriptors, the weights
\* renormalized over those; a missing feature adds to neither sum; the
\* score stays in [0,1].
C6_WeightedAverageOfPresent ==
  (pc = "done" /\ op = "score") =>
    LET P == PresentInBoth(args.verifica_data, args.comp_data)
        ws == SumOver(P, args.verifica_data, args.comp_data)
        tw == WeightOver(P)
        ps == ret.parameters_score
    IN  /\ 0 <= ps /\ ps <= FS
        /\ tw > 0 => (ps * tw <= ws /\ ws < (ps + 1) * tw)

\* AvgCurvature missing from exactly one of the two descriptors
C6_Witness ==
  /\ pc = "done"
  /\ op = "score"
  /\ Has(args.verifica_data, "AvgCurvature")
  /\ ~Has(args.comp_data, "AvgCurvature")
  /\ Has(args.comp_data, "PressureMean")
  /\ WeightOver(PresentInBoth(args.verifica_data, args.comp_data)) = 86
  /\ ret.parameters_score > 0

\* ------------------------------------------------------------------------
\* The comparison as a whole
\* ------------------------------------------------------------------------
Compared == pc = "done" /\ op = "compare"

Succeeded == Compared /\ "error" \notin DOMAIN ret

ExtractedVerifica ==
  analyze_signature_with_dimensions(
    args.verifica, args.verifica_dims[1], args.verifica_dims[2]).data

ExtractedComp ==
  analyze_signature_with_dimensions(
    args.comp, args.reference_dims[1], args.reference_dims[2]).data

SelfComparison ==
  /\ Succeeded
  /\ args.verifica = args.comp
  /\ args.verifica_dims = args.reference_dims
  /\ ExtractedVerifica = ExtractedComp
  /\ ~Has(ExtractedVerifica, "error")
  /\ args.ssim = FS

\* C4: comparing an image against itself (equal descriptors, extracted
\* without error, structural similarity 1.0) gives a final similarity of at
\* least 0.95 and the verdict 'Autentica', whatever the descriptor values.
C4_SelfComparisonAuthentic ==
  SelfComparison =>
    /\ 100 * ret.similarity >= 95 * FS
    /\ ret.verdict = "Autentica"

\* C7: the similarity of a successful comparison is
\* 0.6 * ssim + 0.4 * parameters_score, and lies in [0,1] when ssim does.
C7_FinalSimilarityBlend ==
  Succeeded =>
    LET P == PresentInBoth(ret.verifica_parameters, ret.reference_parameters)
        ws == SumOver(P, ret.verifica_parameters, ret.reference_parameters)
        tw == WeightOver(P)
    IN  /\ tw > 0
        /\ Abs(10 * tw * ret.similarity - (6 * args.ssim * tw + 4 * ws))
             < 14 * tw
        /\ (0 <= args.ssim /\ args.ssim <= FS)
             => (0 <= ret.similarity /\ ret.similarity <= FS)

\* two different signatures, half structurally similar
C7_Witness ==
  /\ Succeeded
  /\ args.verifica # args.comp
  /\ 2 * args.ssim = FS
  /\ ret.similarity > args.ssim
  /\ ret.similarity < FS

FatalError ==
  \/ ~args.verifica.readable
  \/ ~args.comp.readable
  \/ Has(ExtractedVerifica, "error")
  \/ Has(ExtractedComp, "error")

\* C8: when a fatal error occurs (unreadable image, descriptor extraction
\* error) the comparison returns a result holding an error field and
\* nothing else; no exception escapes.
C8_FatalErrorGivesErrorOnly ==
  (Compared /\ FatalError) => DOMAIN ret = {"error"}

\* both files readable, the extraction of the questioned one fails
C8_Witness ==
  /\ Compared
  /\ args.verifica.readable
  /\ args.comp.readable
  /\ Has(ExtractedVerifica, "error")
  /\ ~Has(ExtractedComp, "error")
  /\ DOMAIN ret = {"error"}
  /\ steps[Len(steps)] = "raise KeyError"

\* ------------------------------------------------------------------------
\* Descriptor extraction
\* ------------------------------------------------------------------------
Analyzed == pc = "done" /\ op = "analyze"

\* C9: an image without ink, given positive physical dimensions, yields a
\* descriptor-level error; no exception is raised and nothing is divided
\* by zero on the way.
C9_NoInkIsDescriptorError ==
  (/\ Analyzed
   /\ args.image.readable
   /\ args.image.ink = 0
   /\ args.real_width_mm > 0
   /\ args.real_height_mm > 0) =>
    /\ ret = ErrorDict("Nessun contorno trovato nell'immagine")
    /\ steps = <<>>

\* a blank page of 600 x 300 pixels said to be 50 x 25 mm
C9_Witness ==
  /\ Analyzed
  /\ args.image = Blank(600, 300)
  /\ args.real_width_mm = 50
  /\ args.real_height_mm = 25
  /\ Has(ret, "error")
  /\ Len(ret) = 1

\* C10: a non-positive physical width or height (zero or negative) is an
\* extraction error; whenever extraction succeeds the pixels-per-millimetre
\* factors of X, of Y and their mean are strictly positive.
C10_NonPositiveDimensionsFail ==
  Analyzed =>
    /\ (args.real_width_mm <= 0 \/ args.real_height_mm <= 0)
         => (Has(ret, "error") /\ Len(ret) = 1)
    /\ ~Has(ret, "error") =>
         LET calibration == Calibration(args.image, args.real_width_mm,
                                        args.real_height_mm)
         IN  /\ calibration.x > 0
             /\ calibration.y > 0
             /\ calibration.avg > 0
             /\ Get(ret, "pixels_per_mm").v > 0

\* the stages of a comparison that come after the extraction of the
\* questioned image
LaterStages ==
  {"analyze comp", "normalize", "comparison_chart", "naturalness_chart",
   "descriptive_report", "mkdtemp", "generate_pdf_report", "score",
   "classify"}

CalibrationFailedFirst ==
  /\ Compared
  /\ args.verifica.readable
  /\ args.comp.readable
  /\ (args.verifica_dims[1] <= 0 \/ args.verifica_dims[2] <= 0)
  /\ Has(ExtractedVerifica, "error")

\* C11: once the extraction of the first image has failed on its physical
\* dimensions, no later stage of the comparison runs before the error
\* result is returned.
C11_CalibrationErrorAbortsAtOnce ==
  CalibrationFailedFirst =>
    /\ DOMAIN ret = {"error"}
    /\ \A i \in 1..Len(steps) : steps[i] \notin LaterStages

\* ------------------------------------------------------------------------
\* The command line
\* ------------------------------------------------------------------------
DimensionsMissing ==
  \/ args.verifica_dimensions.form # "ok"
  \/ args.reference_dimensions.form # "ok"

\* C12: when the dimensions of the questioned or of the reference image are
\* absent or cannot be parsed, the command line never calls
\* compare_signatures_with_dimensions and, for an invocation naming both
\* files, prints an error-only result; the deprecated DPI entry points
\* return an error for every input.
C12_NeverGuessesDimensions ==
  /\ (pc = "done" /\ op = "main" /\ DimensionsMissing) =>
       /\ \A i \in 1..Len(steps) :
            steps[i] # "compare_signatures_with_dimensions"
       /\ args.files_given => DOMAIN ret = {"error"}
  /\ (pc = "done" /\ op \in {"compare_deprecated", "analyze_deprecated"}) =>
       DOMAIN ret = {"error"}

\* the questioned size is not a number, the reference size is valid
C12_Witness ==
  /\ pc = "done"
  /\ op = "main"
  /\ args.files_given
  /\ args.verifica_dimensions.form = "text"
  /\ args.reference_dimensions.form = "ok"
  /\ args.verifica.readable
  /\ args.comp.readable
  /\ ret = ErrorResult("Dimensioni reali obbligatorie per entrambe le firme")

\* ------------------------------------------------------------------------
\* Failure of one feature
\* ------------------------------------------------------------------------
\* the key of the descriptor that holds a feature, and its neutral default
FeatureKey(feature) ==
  CASE feature = "inclination" -> "Inclination"
    [] feature = "curvature" -> "AvgCurvature"
    [] feature = "loops" -> "AvgAsolaSize"
    [] feature = "spacing" -> "AvgSpacing"
    [] feature = "velocity" -> "Velocity"
    [] feature = "overlap" -> "OverlapRatio"
    [] feature = "connections" -> "LetterConnections"
    [] feature = "baseline" -> "BaselineStdMm"
    [] feature = "fluidity" -> "FluidityScore"
    [] feature = "pressure_consistency" -> "PressureConsistency"
    [] feature = "coordination" -> "CoordinationIndex"

NeutralDefault(feature) ==
  CASE feature = "inclination" -> Num(15 * VS)
    [] feature = "connections" -> Num(1 * VS)
    [] feature \in {"fluidity", "pressure_consistency", "coordination"}
         -> Num(50 * NS)
    [] OTHER -> Num(0)

\* the descriptor of the same file when nothing fails
Unfailing ==
  analyze_signature_with_dimensions(
    Failing(args.image, ""), args.real_width_mm, args.real_height_mm).data

OneFeatureFails ==
  /\ Analyzed
  /\ args.image.readable
  /\ args.image.contours > 0
  /\ args.image.fails # ""
  /\ args.real_width_mm > 0
  /\ args.real_height_mm > 0

\* C13: when the computation of one feature fails on a mask with at least
\* one contour, extraction still returns a full descriptor without error,
\* the failed feature at its neutral default and every other feature as
\* computed.
C13_BestEffortPerFeature ==
  OneFeatureFails =>
    /\ ~Has(ret, "error")
    /\ Len(ret) = Len(Unfailing)
    /\ Get(ret, FeatureKey(args.image.fails))
         = NeutralDefault(args.image.fails)
    /\ \A i \in 1..Len(ret) :
         ret[i][1] \notin {FeatureKey(args.image.fails), "NaturalnessIndex"}
           => ret[i] = Unfailing[i]

\* ------------------------------------------------------------------------
\* Determinism
\* ------------------------------------------------------------------------
\* C14: descriptor extraction is deterministic: on the same image and the
\* same physical dimensions both entry points return the same output on
\* every run, whatever the time of the run.
C14_ExtractionDeterministic ==
  /\ Analyzed =>
       ret = analyze_signature_with_dimensions(
               args.image, args.real_width_mm, args.real_height_mm).data
  /\ (pc = "done" /\ op = "analyze_signature") =>
       \A later \in Clock :
         analyze_signature(args.image, args.real_width_mm,
                           args.real_height_mm, later) = ret

\* ------------------------------------------------------------------------
\* Calibration
\* ------------------------------------------------------------------------
\* the descriptor of the same image when both physical dimensions are
\* multiplied by k
Scaled(k) ==
  analyze_signature_with_dimensions(
    args.image, k * args.real_width_mm, k * args.real_height_mm).data

\* the calibration of the image at k times the physical dimensions is a
\* whole number of hundredths of a pixel per millimetre, so that the
\* fixed-point descriptor carries no rounding of the calibration itself
ExactCalibration(k) ==
  LET W == args.image.width * VS
      H == args.image.height * VS
      rw == k * args.real_width_mm
      rh == k * args.real_height_mm
  IN  /\ Quot(W, rw) * rw = W
      /\ Quot(H, rh) * rh = H
      /\ Quot(Quot(W, rw) + Quot(H, rh), 2) * 2 = Quot(W, rw) + Quot(H, rh)

\* b is k times a, up to the rounding of a
ScalesBy(a, b, k) ==
  \/ a.t = "inf" /\ b.t = "inf"
  \/ a.t = "num" /\ b.t = "num" /\ Abs(b.v - k * a.v) <= k

UnscaledKeys ==
  {"Proportion", "Inclination", "AvgCurvature", "Velocity", "OverlapRatio",
   "LetterConnections", "FluidityScore", "PressureConsistency",
   "CoordinationIndex", "NaturalnessIndex"}

\* C15: with the pixel content fixed, multiplying both physical dimensions
\* by k > 0 multiplies AvgAsolaSize by k^2, AvgSpacing, BaselineStdMm and
\* both Dimensions by k, and leaves the features that are not in
\* millimetres unchanged (checked on the calibrations that hundredths of a
\* pixel per millimetre represent exactly).
C15_CalibrationInvariance ==
  (Analyzed /\ ~Has(ret, "error") /\ ExactCalibration(1)) =>
    \A k \in {j \in 1..MaxScale : ExactCalibration(j)} :
      LET scaled == Scaled(k)
      IN  /\ ~Has(scaled, "error")
          /\ ScalesBy(Get(ret, "AvgAsolaSize"), Get(scaled, "AvgAsolaSize"),
                      k * k)
          /\ ScalesBy(Get(ret, "AvgSpacing"), Get(scaled, "AvgSpacing"), k)
          /\ ScalesBy(Get(ret, "BaselineStdMm"), Get(scaled, "BaselineStdMm"),
                      k)
          /\ Abs(Get(scaled, "Dimensions").v - k * Get(ret, "Dimensions").v)
               <= k
          /\ Abs(Get(scaled, "Dimensions").w - k * Get(ret, "Dimensions").w)
               <= k
          /\ \A key \in UnscaledKeys : Get(scaled, key) = Get(ret, key)

\* 50 x 25 mm and its double, 100 x 50 mm, on an image with loops
C15_Witness ==
  /\ Analyzed
  /\ args.real_width_mm = 50
  /\ args.real_height_mm = 25
  /\ args.image.asola_area > 0
  /\ Get(ret, "AvgAsolaSize").v > 0
  /\ Get(Scaled(2), "AvgAsolaSize").v > 3 * Get(ret, "AvgAsolaSize").v
  /\ Get(Scaled(2), "AvgSpacing").v = 2 * Get(ret, "AvgSpacing").v
  /\ Get(ret, "AvgSpacing").v > 0

\* ------------------------------------------------------------------------
\* Key normalization
\* ------------------------------------------------------------------------
Normalized == pc = "done" /\ op = "normalize"

InTable(key) == \E i \in 1..Len(key_mapping) : key_mapping[i][1] = key

\* C16: normalize_parameter_keys returns a result for every input, leaves
\* the mapping it is given as it was, and every key that is not in the
\* alias table is in the output with exactly its input value.
C16_UnknownKeysPassThrough ==
  Normalized =>
    /\ ret.data = args.data
    /\ ~args.is_dict => ret.result = args.data
    /\ args.is_dict =>
         \A i \in 1..Len(args.data) :
           ~InTable(args.data[i][1]) =>
             /\ Has(ret.result, args.data[i][1])
             /\ Get(ret.result, args.data[i][1]) = args.data[i][2]

\* an unknown key after a legacy spelling and before a canonical one
C16_Witness ==
  /\ Normalized
  /\ args.is_dict
  /\ Len(args.data) = 3
  /\ args.data[1][1] = "pressure_mean"
  /\ args.data[2][1] = "note"
  /\ args.data[3][1] = "Inclination"
  /\ Get(ret.result, "note") = args.data[2][2]
  /\ Len(ret.result) > 3

\* the spellings of the alias group of a canonical name
Spellings(canonical) ==
  {key_mapping[i][1] : i \in {j \in 1..Len(key_mapping) :
                                key_mapping[j][2] = canonical}}

\* the keys of the input that belong to the group of a canonical name
GroupKeys(data, canonical) ==
  {i \in 1..Len(data) : InTable(data[i][1]) /\ MapKey(data[i][1]) = canonical}

\* C17: a feature present in the input under one spelling of its alias
\* group is, after normalization, readable under the canonical name and
\* under every legacy spelling of the group, the input's own included.
C17_EverySpellingReadable ==
  (Normalized /\ args.is_dict) =>
    \A i \in 1..Len(args.data) :
      LET key == args.data[i][1]
      IN  (InTable(key) /\ GroupKeys(args.data, MapKey(key)) = {i}) =>
            \A spelling \in Spellings(MapKey(key)) :
              /\ Has(ret.result, spelling)
              /\ Get(ret.result, spelling) = args.data[i][2]


\* ------------------------------------------------------------------------
\* Overlap ratio
\* ------------------------------------------------------------------------
\* C18: OverlapRatio lies in [0, 1] for every mask, also when ink
\* components lie outside the bounding box of the largest contour.
C18_OverlapRatioInUnitInterval ==
  (Analyzed /\ ~Has(ret, "error")) =>
    /\ Get(ret, "OverlapRatio").t = "num"
    /\ Get(ret, "OverlapRatio").v >= 0
    /\ Get(ret, "OverlapRatio").v <= VS


\* ------------------------------------------------------------------------
\* Threshold tables of the per-feature compatibility
\* ------------------------------------------------------------------------
Compatible == pc = "done" /\ op = "compat"

BothFinite == args.ref_val.t = "num" /\ args.ver_val.t = "num"

AbsoluteNames == {"AvgAsolaSize", "BaselineStdMm"}

RelativeNames ==
  ParameterNames \ ({"WritingStyle", "Readability"} \cup AbsoluteNames)

\* the table of the absolute difference d / VS, at scale FS
AbsoluteTable(d) ==
  IF 20 * d <= VS THEN 9500
  ELSE IF 10 * d <= VS THEN 8000
  ELSE IF 5 * d <= VS THEN 6000
  ELSE Max(0, FS - 2 * d * (FS \div VS))

\* the table of the relative difference d / m (m > 0), at scale FS; in the
\* last row, FS * (1 - d / m) up to one unit of the scale
InRelativeTable(value, d, m) ==
  IF 20 * d <= m THEN value = 9800
  ELSE IF 10 * d <= m THEN value = 9000
  ELSE IF 20 * d <= 3 * m THEN value = 8000
  ELSE IF 4 * d <= m THEN value = 6000
  ELSE IF 2 * d <= m THEN value = 3000
  ELSE Abs(value * m - Max(1000 * m, (m - d) * FS)) < m

\* C19: for two finite values a and b of a numeric feature,
\* calculate_parameter_compatibility equals the threshold tables: for
\* AvgAsolaSize and BaselineStdMm the table of d = |a-b| (<= 0.05 -> 0.95,
\* <= 0.1 -> 0.80, <= 0.2 -> 0.60, otherwise max(0, 1 - 2d)), the same for
\* every pair of values at that distance; for every other numeric feature
\* 1.0 when both are zero and otherwise the table of r = |a-b|/max(|a|,|b|)
\* (<= 5% -> 0.98, <= 10% -> 0.90, <= 15% -> 0.80, <= 25% -> 0.60,
\* <= 50% -> 0.30, otherwise max(0.10, 1 - r)), the same for every pair of
\* values with that ratio.
C19_NumericThresholdTables ==
  (Compatible /\ BothFinite) =>
    LET a == args.ref_val.v
        b == args.ver_val.v
        name == args.param_name
        d == Abs(a - b)
        m == Max(Abs(a), Abs(b))
    IN  /\ name \in AbsoluteNames =>
             /\ ret.value = AbsoluteTable(d)
             /\ \A x \in -MaxV..MaxV :
                  calculate_parameter_compatibility(Num(x), Num(x + d), name)
                    = ret.value
        /\ name \in RelativeNames =>
             /\ m = 0 => ret.value = FS
             /\ m > 0 => InRelativeTable(ret.value, d, m)
             /\ \A k \in {-1, 2} :
                  calculate_parameter_compatibility(Num(k * a), Num(k * b),
                                                    name) = ret.value

\* a relative difference of exactly 15%, and an absolute one of exactly 0.2
C19_Witness ==
  /\ Compatible
  /\ \/ /\ args.param_name = "Velocity"
        /\ args.ref_val = Num(20)
        /\ args.ver_val = Num(17)
        /\ ret.value = 8000
     \/ /\ args.param_name = "BaselineStdMm"
        /\ args.ref_val = Num(-1)
        /\ args.ver_val = Num(19)
        /\ ret.value = 6000


\* ------------------------------------------------------------------------
\* Categorical features
\* ------------------------------------------------------------------------
BothLabels == args.ref_val.t = "str" /\ args.ver_val.t = "str"

\* two labels match when they are equal up to case
LabelsMatch == Lower(args.ref_val.s) = Lower(args.ver_val.s)

\* the place of a readability label among {Bassa/Low, Media/Medium,
\* Alta/High}
OrdinalLevel(label) ==
  CASE Lower(label) \in {"bassa", "low"} -> 1
    [] Lower(label) \in {"media", "medium"} -> 2
    [] Lower(label) \in {"alta", "high"} -> 3
    [] OTHER -> 0

OrdinalDistance == Abs(OrdinalLevel(args.ref_val.s) - OrdinalLevel(args.ver_val.s))

InUnit100(x) == 0 <= x /\ x <= 100 * NS

\* C21: for sub-scores in [0,100], calculate_naturalness_index returns
\* fluidity x 0.4 + pressure_consistency x 0.3 + coordination x 0.3, a value
\* of [0,100] between the smallest and the largest sub-score; the average
\* naturalness is the mean of the two descriptors' indices, and the output
\* field naturalness is that mean / 100, in [0,1].
C21_NaturalnessIndexWeightedMean ==
  /\ (pc = "done" /\ op = "naturalness_index"
        /\ InUnit100(args.fluidity) /\ InUnit100(args.pressure_consistency)
        /\ InUnit100(args.coordination)) =>
       LET f == args.fluidity
           p == args.pressure_consistency
           c == args.coordination
       IN  /\ Abs(10 * ret.value - (4 * f + 3 * p + 3 * c)) < 10
           /\ InUnit100(ret.value)
           /\ Min(f, Min(p, c)) <= ret.value
           /\ ret.value <= Max(f, Max(p, c))
  /\ (pc = "done" /\ op = "avg_naturalness"
        /\ Has(args.verifica_data, "NaturalnessIndex")
        /\ Has(args.comp_data, "NaturalnessIndex")) =>
       LET a == Get(args.verifica_data, "NaturalnessIndex").v
           b == Get(args.comp_data, "NaturalnessIndex").v
       IN  /\ Abs(2 * ret.avg_naturalness - (a + b)) <= 1
           /\ Abs(ret.naturalness * 100 * NS - ret.avg_naturalness * FS)
                < 100 * NS
           /\ 0 <= ret.naturalness
           /\ ret.naturalness <= FS

\* three different sub-scores, the index strictly between them
C21_Witness ==
  /\ pc = "done"
  /\ op = "naturalness_index"
  /\ args.fluidity = 100 * NS
  /\ args.pressure_consistency = 50 * NS
  /\ args.coordination = 0
  /\ ret.value = 55 * NS


\* no measurement can be taken on the input of the sub-score
NoMeasurement ==
  \/ args.raises
  \/ /\ op = "fluidity"
     /\ \A i \in 1..Len(args.contours) :
          args.contours[i].points < 10 \/ args.contours[i].length = 0
  \/ /\ op = "coordination"
     /\ \A i \in 1..Len(args.contours) :
          args.contours[i].points < 20 \/ args.contours[i].length = 0
  \/ /\ op = "pressure_consistency"
     /\ (args.ink_count < 10 \/ args.pressure_mean = 0)

\* C22: each naturalness sub-score is in [0,100] for every input, and is
\* the neutral default 50 whenever no measurement can be taken (no
\* contours, no ink pixels, too few points, zero mean pressure, or an
\* exception inside the function).
C22_SubScoresNeutralOnFailure ==
  (pc = "done" /\ op \in {"fluidity", "pressure_consistency", "coordination"})
    => /\ InUnit100(ret.value)
       /\ NoMeasurement => ret.value = 50 * NS


\* ------------------------------------------------------------------------
\* Inclination
\* ------------------------------------------------------------------------
Below(q, m) == Cardinality({i \in 1..Len(q) : q[i] < m})

Above(q, m) == Cardinality({i \in 1..Len(q) : q[i] > m})

\* m is the median of the non-empty list q: the middle value, or the mean
\* of the two middle values
IsMedian(m, q) ==
  /\ 2 * Below(q, m) <= Len(q)
  /\ 2 * Above(q, m) <= Len(q)
  /\ \E i, j \in 1..Len(q) :
       /\ Abs(2 * m - (q[i] + q[j])) <= 1
       /\ (Len(q) % 2 = 1) => i = j
       /\ (Len(q) % 2 = 0) =>
            /\ i # j
            /\ 2 * Below(q, Min(q[i], q[j])) < Len(q)
            /\ 2 * Above(q, Max(q[i], q[j])) < Len(q)

InclinationSamples ==
  inclination_samples(args.contours, args.regression, args.fails)

PlausibleSamples ==
  SelectSeq(InclinationSamples, LAMBDA inc : 0 <= inc /\ inc <= 60 * VS)

\* C23: calculate_signature_inclination returns the median of the samples
\* of at most 60 degrees when there is one (a result of at most 60), the
\* median of all samples when each exceeds 60 degrees, and 15 degrees when
\* no estimator produced a sample, an empty contour list included; the
\* result is always in [0,90].
C23_InclinationMedianOrFallback ==
  (pc = "done" /\ op = "inclination") =>
    /\ 0 <= ret.value
    /\ ret.value <= 90 * VS
    /\ PlausibleSamples # <<>> =>
         /\ IsMedian(ret.value, PlausibleSamples)
         /\ ret.value <= 60 * VS
    /\ (InclinationSamples # <<>> /\ PlausibleSamples = <<>>) =>
         IsMedian(ret.value, InclinationSamples)
    /\ InclinationSamples = <<>> => ret.value = 15 * VS


\* ------------------------------------------------------------------------
\* Source resolution
\* ------------------------------------------------------------------------
\* the same page scanned at W x H pixels: the 300 x 150 analysis mask and
\* what is measured on it are unchanged
AtResolution(image, W, H) ==
  [image EXCEPT !.width = W, !.height = H,
                !.w_orig = (image.w * W) \div 300,
                !.h_orig = (image.h * H) \div 150]

\* C24: for a fixed physical size and a fixed content of the analysis mask,
\* AvgAsolaSize, AvgSpacing and BaselineStdMm returned by
\* analyze_signature_with_dimensions do not depend on the pixel width and
\* height of the source image.
C24_MillimetreFeaturesResolutionFree ==
  (Analyzed /\ ~Has(ret, "error")
     /\ args.real_width_mm > 0 /\ args.real_height_mm > 0) =>
    \A sz \in Sizes :
      LET other == analyze_signature_with_dimensions(
                     AtResolution(args.image, sz[1], sz[2]),
                     args.real_width_mm, args.real_height_mm).data
      IN  /\ ~Has(other, "error")
          /\ Get(other, "AvgAsolaSize") = Get(ret, "AvgAsolaSize")
          /\ Get(other, "AvgSpacing") = Get(ret, "AvgSpacing")
          /\ Get(other, "BaselineStdMm") = Get(ret, "BaselineStdMm")


\* ------------------------------------------------------------------------
\* Report
\* ------------------------------------------------------------------------
\* C25: when a report is generated and case_info supplies no verdict, the
\* final verdict printed in the PDF is the verdict that
\* compare_signatures_with_dimensions returns for the same pair.
C25_ReportPrintsComparatorVerdict ==
  (Succeeded /\ args.report = "path") =>
    generate_pdf_report_verdict(ExtractedVerifica, "") = Upper(ret.verdict)


\* ------------------------------------------------------------------------
\* Reach of the last rules of the classification table
\* ------------------------------------------------------------------------
\* C28: for every (similarity, naturalness) of [0,100] x [0,100] the final
\* fallback branch ('Incerta', 50, "Parametri nel range intermedio") of
\* classify_signature_intelligent is never reached, and the outcome
\* 'Probabilmente autentica' of the rule '60 <= naturalness < 80' is only
\* reached with a similarity of at least 85%.
C28_FallbackUnreachable ==
  (pc = "done" /\ op = "classify") =>
    /\ ret # Triple("Incerta", 50, "Parametri nel range intermedio")
    /\ ret = Triple("Probabilmente autentica", 75,
                    "Alta similarita e naturalezza accettabile")
         => args.similarity_pct * 100 >= 85 * FS

\* similarity 90%, naturalness 70: decided by the rule '60 <= nat < 80'
C28_Witness ==
  /\ pc = "done"
  /\ op = "classify"
  /\ args.similarity_pct = (90 * FS) \div 100
  /\ args.naturalness_pct = 70 * NS
  /\ ret = Triple("Probabilmente autentica", 75,
                  "Alta similarita e naturalezza accettabile")


\* ------------------------------------------------------------------------
\* Double normalization
\* ------------------------------------------------------------------------
KeysOf(d) == {d[i][1] : i \in 1..Len(d)}

SameMapping(a, b) ==
  /\ KeysOf(a) = KeysOf(b)
  /\ \A k \in KeysOf(a) : Get(a, k) = Get(b, k)

\* C26: normalize_parameter_keys is idempotent: normalizing the normalized
\* descriptor gives the same keys with the same values as normalizing the
\* descriptor once.
C26_NormalizeIdempotent ==
  (Normalized /\ args.is_dict) =>
    SameMapping(normalize_parameter_keys(ret.result), ret.result)


\* ------------------------------------------------------------------------
\* Monotonicity of the numeric compatibility
\* ------------------------------------------------------------------------
\* C27: a pair of values with a larger relative difference never receives a
\* higher compatibility than a pair with a smaller one, for the features
\* scored by relative difference; likewise for AvgAsolaSize and
\* BaselineStdMm with the absolute difference.  The pair of the call is
\* compared with the pairs (x, MaxV).
C27_CompatibilityMonotone ==
  (Compatible /\ BothFinite) =>
    LET name == args.param_name
        d == Abs(args.ref_val.v - args.ver_val.v)
        m == Max(Abs(args.ref_val.v), Abs(args.ver_val.v))
    IN  \A x \in 0..MaxV :
          LET other == calculate_parameter_compatibility(Num(x), Num(MaxV),
                                                         name)
          IN  /\ (name \in RelativeNames /\ m > 0
                    /\ (MaxV - x) * m >= d * MaxV) => other <= ret.value
              /\ (name \in AbsoluteNames /\ MaxV - x >= d) =>
                   other <= ret.value


\* ------------------------------------------------------------------------
\* Failure of the PDF generation
\* ------------------------------------------------------------------------
\* the result of the same comparison with generate_report=False
WithoutReport ==
  compare_signatures_with_dimensions(
    args.verifica, args.comp, args.verifica_dims, args.reference_dims,
    args.ssim, "off").result

\* C29: if generate_pdf_report raises or returns no path,
\* compare_signatures_with_dimensions still returns the full result, with
\* the similarity, naturalness, verdict and confidence it returns with
\* generate_report=False, a null report_path and no error field.
C29_ReportFailureKeepsOutcome ==
  (Compared /\ args.report \in {"none", "raise"}
     /\ "error" \notin DOMAIN WithoutReport) =>
    /\ "error" \notin DOMAIN ret
    /\ ret.similarity = WithoutReport.similarity
    /\ ret.naturalness = WithoutReport.naturalness
    /\ ret.verdict = WithoutReport.verdict
    /\ ret.confidence = WithoutReport.confidence
    /\ ret.report_path = "None"
    /\ DOMAIN ret = DOMAIN WithoutReport

\* generate_pdf_report raised during a comparison that ends in a verdict
C29_Witness ==
  /\ Succeeded
  /\ args.report = "raise"
  /\ ret.verdict = "Autentica"
  /\ ret.report_path = "None"


\* ------------------------------------------------------------------------
\* The interactive tool (firma_analyzer): the loaded signatures of the two
\* sides, their display images and the two canvases.  Every button runs its
\* handler to the end on the single Tk thread; pc stays "idle" between
\* handlers, op and args name the last handler and ret says how it ended.
\* ------------------------------------------------------------------------
MaxLoaded == 2
MaxBatch == 2

\* the files the dialog can return: cv2 tells whether cv2.imread decodes the
\* file (it returns None otherwise), pil whether Image.open and
\* ImageTk.PhotoImage accept it (they raise otherwise)
Files ==
  {[path |-> "a.png", cv2 |-> TRUE, pil |-> TRUE],
   [path |-> "b.jpg", cv2 |-> TRUE, pil |-> TRUE],
   [path |-> "c.tiff", cv2 |-> FALSE, pil |-> TRUE],
   [path |-> "d.bmp", cv2 |-> FALSE, pil |-> FALSE]}

imread(file) == IF file.cv2 THEN "ndarray" ELSE "None"

PhotoImage(file) == [photo |-> file.path, size |-> <<150, 75>>]

Tool(verifica, comparative, verifica_images, comparative_images, canvas_v, canvas_c) ==
  [firme_verifica |-> verifica,
   firme_comparative |-> comparative,
   firme_verifica_images |-> verifica_images,
   firme_comparative_images |-> comparative_images,
   canvas_verifica |-> canvas_v,
   canvas_comparative |-> canvas_c]

\* both canvases are cleared and redrawn from the lists of display images
update_canvas(tool) ==
  [tool EXCEPT !.canvas_verifica = tool.firme_verifica_images,
               !.canvas_comparative = tool.firme_comparative_images]

pop(list) == SubSeq(list, 1, Len(list) - 1)

\* the files of one selection, in order; the first file PIL rejects raises
\* out of the handler with the earlier files loaded and the canvases stale
RECURSIVE load_loop(_, _, _, _)
load_loop(is_verifica, file_paths, i, tool) ==
  IF i > Len(file_paths)
    THEN [tool |-> update_canvas(tool), raised |-> FALSE]
  ELSE IF ~file_paths[i].pil
    THEN [tool |-> tool, raised |-> TRUE]
  ELSE LET entry == <<imread(file_paths[i]), file_paths[i].path>>
           img_display == PhotoImage(file_paths[i])
           loaded ==
             IF is_verifica
               THEN [tool EXCEPT
                       !.firme_verifica = Append(@, entry),
                       !.firme_verifica_images = Append(@, img_display)]
               ELSE [tool EXCEPT
                       !.firme_comparative = Append(@, entry),
                       !.firme_comparative_images = Append(@, img_display)]
       IN  load_loop(is_verifica, file_paths, i + 1, loaded)

load_signature(is_verifica, file_paths, tool) ==
  IF file_paths = <<>>
    THEN [tool |-> tool, raised |-> FALSE]
    ELSE load_loop(is_verifica, file_paths, 1, tool)

\* a removal that forgets the display image
remove_last_entry_only(is_verifica, tool) ==
  update_canvas(
    IF is_verifica
      THEN IF tool.firme_verifica # <<>>
             THEN [tool EXCEPT !.firme_verifica = pop(@)]
             ELSE tool
      ELSE IF tool.firme_comparative # <<>>
             THEN [tool EXCEPT !.firme_comparative = pop(@)]
             ELSE tool)

remove_last_signature(is_verifica, tool) ==
  update_canvas(
    IF is_verifica
      THEN IF tool.firme_verifica # <<>>
             THEN [tool EXCEPT !.firme_verifica = pop(@),
                               !.firme_verifica_images = pop(@)]
             ELSE tool
      ELSE IF tool.firme_comparative # <<>>
             THEN [tool EXCEPT !.firme_comparative = pop(@),
                               !.firme_comparative_images = pop(@)]
             ELSE tool)

CurrentTool ==
  Tool(firme_verifica, firme_comparative, firme_verifica_images,
       firme_comparative_images, canvas_verifica, canvas_comparative)

SetTool(tool) ==
  /\ firme_verifica' = tool.firme_verifica
  /\ firme_comparative' = tool.firme_comparative
  /\ firme_verifica_images' = tool.firme_verifica_images
  /\ firme_comparative_images' = tool.firme_comparative_images
  /\ canvas_verifica' = tool.canvas_verifica
  /\ canvas_comparative' = tool.canvas_comparative

\* the selections of the file dialog: a cancelled dialog is the empty one
Selections ==
  UNION {[1..n -> Files] : n \in 0..MaxBatch}

InitTool ==
  /\ pc = "idle"
  /\ op = "mainloop"
  /\ args = NoValue
  /\ ret = NoValue
  /\ steps = <<>>
  /\ NothingLoaded

LoadSignature ==
  \E is_verifica \in BOOLEAN, file_paths \in Selections :
    /\ pc = "idle"
    /\ Len(IF is_verifica THEN firme_verifica ELSE firme_comparative)
         + Len(file_paths) <= MaxLoaded
    /\ \E out \in {load_signature(is_verifica, file_paths, CurrentTool)} :
         /\ SetTool(out.tool)
         /\ ret' = IF out.raised THEN [raised |-> "UnidentifiedImageError"]
                   ELSE NoValue
    /\ op' = "load_signature"
    /\ args' = [is_verifica |-> is_verifica, file_paths |-> file_paths]
    /\ UNCHANGED <<pc, steps>>

RemoveLastSignature ==
  \E is_verifica \in BOOLEAN :
    /\ pc = "idle"
    /\ SetTool(remove_last_signature(is_verifica, CurrentTool))
    /\ op' = "remove_last_signature"
    /\ args' = [is_verifica |-> is_verifica]
    /\ ret' = NoValue
    /\ UNCHANGED <<pc, steps>>

NextTool == LoadSignature \/ RemoveLastSignature

SpecTool == InitTool /\ [][NextTool]_vars

SameLengths ==
  /\ Len(firme_verifica) = Len(firme_verifica_images)
  /\ Len(firme_comparative) = Len(firme_comparative_images)

\* the entries of a selection that reach the lists: those before the first
\* file PIL rejects
RECURSIVE Accepted(_)
Accepted(file_paths) ==
  IF file_paths = <<>> \/ ~Head(file_paths).pil THEN <<>>
  ELSE <<Head(file_paths).path>> \o Accepted(Tail(file_paths))

PathsOf(list) == [i \in 1..Len(list) |-> list[i][2]]

Front(list) == [i \in 1..(Len(list) - 1) |-> list[i]]

\* what one handler may do to the four lists
ToolStep ==
  LET v == args'.is_verifica
      side == IF v THEN firme_verifica ELSE firme_comparative
      images == IF v THEN firme_verifica_images ELSE firme_comparative_images
      side_after == IF v THEN firme_verifica' ELSE firme_comparative'
      images_after ==
        IF v THEN firme_verifica_images' ELSE firme_comparative_images'
      other_unchanged ==
        IF v THEN UNCHANGED <<firme_comparative, firme_comparative_images>>
        ELSE UNCHANGED <<firme_verifica, firme_verifica_images>>
  IN  /\ op' = "load_signature" =>
        \* a load appends, so the last entry is the most recently loaded
        /\ PathsOf(side_after)
             = PathsOf(side) \o Accepted(args'.file_paths)
        /\ SubSeq(side_after, 1, Len(side)) = side
        /\ SubSeq(images_after, 1, Len(images)) = images
        /\ other_unchanged
      /\ op' = "remove_last_signature" =>
        /\ other_unchanged
        /\ IF side = <<>>
             THEN side_after = <<>> /\ images_after = images
             ELSE /\ side_after = Front(side)
                  /\ images_after = Front(images)

\* C30: after any sequence of load_signature and remove_last_signature the
\* list of loaded signatures and the list of display images of each side
\* have the same length; remove_last_signature removes exactly the most
\* recently loaded entry of its side, leaves the other side unchanged and
\* does nothing on an empty side.
C30_ToolListsInStep == []SameLengths /\ [][ToolStep]_vars

\* the last verifica signature was removed while another one and two
\* comparative signatures stay loaded
C30_Witness ==
  /\ op = "remove_last_signature"
  /\ args.is_verifica
  /\ Len(firme_verifica) = 1
  /\ Len(firme_verifica_images) = 1
  /\ Len(firme_comparative) = 2
  /\ ret = NoValue

====
